---- MODULE Spec2Model ----
(***************************************************************************)
(* blog-builder: the fetcher's retry loop (utils/fetcher.ts), the Discover *)
(* stage (commands/discover.ts) and the Plan / Generate stages             *)
(* (commands/planner.ts, commands/generator.ts) over the persisted         *)
(* artifacts of one domain directory.                                      *)
(*                                                                         *)
(* Six specifications share the module:                                    *)
(*   SpecFetch     one fetchPage call after another against a server that  *)
(*                 answers each attempt arbitrarily;                       *)
(*   SpecGen       Plan and Generate runs over one domain directory;       *)
(*   SpecDiscover  Discover runs against an arbitrary site;                *)
(*   SpecCall      one call of an extraction function on an arbitrary page; *)
(*   SpecRun       the run command, the four stages in one process;        *)
(*   SpecConverge  generate commands in a row whose calls all succeed.     *)
(* Each await of the source is a step, so that a failure or a crash can    *)
(* fall between any two of them.                                           *)
(***************************************************************************)
EXTENDS Integers, Sequences, FiniteSets, TLC

VARIABLES
    \* ---- fetchPage (utils/fetcher.ts) ----
    fetchPc,        \* "idle" | "request" | "sleep" | "returned" | "thrown"
    url,            \* the url argument of the running call
    attempt,        \* the loop variable of the retry loop
    lastError,      \* message of the last caught error, NoError before any
    pendingDelay,   \* ms the running sleep() was started with
    requests,       \* responses axios.get gave to this call, in order
    slept,          \* delays this call has awaited, in order
    fetchResult     \* what the call returned or threw

fetchVars == <<fetchPc, url, attempt, lastError, pendingDelay, requests,
               slept, fetchResult>>

VARIABLES
    \* ---- persisted artifacts of one domain directory ----
    siteAnalysis,   \* site-analysis.json exists
    articlePlan,    \* article-plan.json: [exists, articles]
    blogPlanMd,     \* blog-plan.md: [exists, recommended]
    outputDir,      \* the directory output/ exists
    articleFiles,   \* output/<dir>/{article,medium,linkedin}.md, metadata.json
    blogTs,         \* output/blog.ts: [exists, posts]
    readmeMd,       \* output/README.md exists
    \* ---- the running planArticles / generateArticles command ----
    genPc,          \* "idle", "exit", or the await generateArticles is at
    lastCmd,        \* [name, result] of the command running or last run
    articleCount,   \* config.articleCount of that command
    plan,           \* generateArticles: plan.articles as held in memory
    articlesToGenerate, \* indices into plan of the briefs selected
    genIdx,         \* position of the for loop in articlesToGenerate
    article,        \* the GeneratedArticle under construction
    generatedArticles,  \* the run's generatedArticles array
    \* ---- observation of the command, for the properties ----
    llmCalls,       \* LLM calls the command has made
    invoked,        \* plan indices generateSingleArticle was called for
    completed       \* briefs whose loop body the run has finished

fileVars == <<siteAnalysis, articlePlan, blogPlanMd, outputDir, articleFiles,
              blogTs, readmeMd>>
runVars == <<genPc, lastCmd, articleCount, plan, articlesToGenerate, genIdx,
             article, generatedArticles>>
obsVars == <<llmCalls, invoked, completed>>
genVars == <<fileVars, runVars, obsVars>>

VARIABLES
    \* ---- discoverArticles (commands/discover.ts) ----
    existingArticles,   \* existing-articles.json
    discPc,         \* "idle", "exit", or the await discoverArticles is at
    discResult,     \* how the run ended
    blogLinks,      \* the blogLinks array
    probeIdx,       \* position of the loop over commonPaths
    blogListingUrl, \* the listing page chosen, NoUrl when undefined
    articleUrls,    \* articleUrls.slice(0, 20), the candidates
    artIdx,         \* position of the loop over the candidates
    articles,       \* the articles array
    inFlight,       \* fetchPage calls of the run started and not yet settled
    \* ---- observation of the run, for the properties ----
    fetchCalls,     \* number of fetchPage calls the run has made
    lastEvent,      \* the last fetchPage call or sleep of the run
    seen            \* per candidate processed: the page and what became of it

discVars == <<existingArticles, discPc, discResult, blogLinks, probeIdx,
              blogListingUrl, articleUrls, artIdx, articles, inFlight,
              fetchCalls, lastEvent, seen>>

VARIABLES
    \* ---- one call of an extraction function or of generateJsonWithClaude
    callOp,         \* the function called, "none" before any call
    callArg,        \* its input (html, or the response of the LLM)
    callBase,       \* its baseUrl argument, NoUrl when it has none
    callResult      \* what it returned or threw

callVars == <<callOp, callArg, callBase, callResult>>

VARIABLES
    \* ---- the run command of index.ts ----
    pipelinePc,     \* "idle", the stage whose call is awaited, or "exit"
    stages,         \* the stages started so far: [name, outcome]
    exitCode        \* the exit code of the process, once pipelinePc = "exit"

pipeVars == <<pipelinePc, stages, exitCode>>

VARIABLES
    \* ---- a series of consecutive generate commands, for the properties
    seriesCount,    \* config.articleCount of the commands; 0: no series yet
    seriesNeed,     \* runs the plan needed when the series began
    seriesRuns      \* generate commands of the series that have completed

seriesVars == <<seriesCount, seriesNeed, seriesRuns>>

vars == <<fetchVars, genVars, discVars, callVars, pipeVars, seriesVars>>

----------------------------------------------------------------------------
(* fetchPage                                                               *)

MAX_RETRIES == 3
RETRY_DELAY == 1000

NoError == [text |-> "null", code |-> 0]
NoResult == [kind |-> "none"]

\* The target URLs a call is made with.
FetchUrls == {"https://site/", "https://site/blog"}

\* What one axios.get can end with: a response with an HTTP status (after
\* redirects); an AxiosError without a response (timeout, network error:
\* status 0 stands for error.response being undefined); or an error that is
\* no AxiosError.
Statuses == {200, 302, 400, 404, 429, 499, 500, 503}
Responses ==
    [kind : {"http"}, status : Statuses]
        \cup [kind : {"timeout", "network", "nonaxios"}, status : {0}]

\* validateStatus: (status) => status < 400
validateStatus(status) == status < 400

\* axios.get resolves (response.data is returned)
Resolves(resp) == resp.kind = "http" /\ validateStatus(resp.status)

\* error.message of the error axios.get rejects with
ErrorMessage(resp) ==
    IF resp.kind = "http"
    THEN [text |-> "Request failed with status code", code |-> resp.status]
    ELSE [text |-> resp.kind, code |-> 0]

\* Variant of IsClientError whose lower bound is exclusive (status 400 would
\* be retried).
IsClientErrorAbove400(resp) ==
    /\ resp.kind # "nonaxios"
    /\ resp.status # 0
    /\ resp.status > 400
    /\ resp.status < 500
    /\ resp.status # 429

\* The 4xx test of the catch block: an AxiosError with a response status in
\* [400, 500) other than 429.
IsClientError(resp) ==
    /\ resp.kind # "nonaxios"
    /\ resp.status # 0
    /\ resp.status >= 400
    /\ resp.status < 500
    /\ resp.status # 429

\* attempt < MAX_RETRIES, the guard of the backoff sleep
Backoff(a) == a < MAX_RETRIES

\* Variant of RetryDelay with a constant delay.
RetryDelayConstant(a) == RETRY_DELAY

\* RETRY_DELAY * attempt
RetryDelay(a) == RETRY_DELAY * a

\* Variant of LoopContinues that allows one more pass.
LoopContinuesOneMore(a) == a <= MAX_RETRIES + 1

\* the loop condition attempt <= MAX_RETRIES
LoopContinues(a) == a <= MAX_RETRIES

FetchInit ==
    /\ fetchPc = "idle"
    /\ url = "none"
    /\ attempt = 0
    /\ lastError = NoError
    /\ pendingDelay = 0
    /\ requests = <<>>
    /\ slept = <<>>
    /\ fetchResult = NoResult

\* fetchPage(url) is called: lastError = null, attempt = 1.
FetchCall ==
    /\ fetchPc \in {"idle", "returned", "thrown"}
    /\ \E u \in FetchUrls : url' = u
    /\ attempt' = 1
    /\ lastError' = NoError
    /\ pendingDelay' = 0
    /\ requests' = <<>>
    /\ slept' = <<>>
    /\ fetchResult' = NoResult
    /\ fetchPc' = "request"
    /\ UNCHANGED <<genVars, discVars, callVars, pipeVars, seriesVars>>

\* The loop is left when attempt > MAX_RETRIES: the final throw.
AfterLoop(a, err) ==
    IF LoopContinues(a)
    THEN /\ fetchPc' = "request"
         /\ fetchResult' = fetchResult
    ELSE /\ fetchPc' = "thrown"
         /\ fetchResult' = [kind |-> "error", url |-> url,
                            after |-> MAX_RETRIES, detail |-> err]

\* One pass of the loop body up to its next await: axios.get settles with
\* resp; on success return, else the catch block.
FetchAttempt ==
    /\ fetchPc = "request"
    /\ \E resp \in Responses :
         /\ requests' = Append(requests, resp)
         /\ IF Resolves(resp)
            THEN /\ fetchPc' = "returned"
                 /\ fetchResult' = [kind |-> "ok", url |-> url]
                 /\ UNCHANGED <<attempt, lastError, pendingDelay>>
            ELSE /\ lastError' = ErrorMessage(resp)
                 /\ IF IsClientError(resp)
                    THEN /\ fetchPc' = "thrown"
                         /\ fetchResult' = [kind |-> "error", url |-> url,
                                            after |-> 0,
                                            detail |-> [text |-> "status",
                                                        code |-> resp.status]]
                         /\ UNCHANGED <<attempt, pendingDelay>>
                    ELSE IF Backoff(attempt)
                    THEN /\ fetchPc' = "sleep"
                         /\ pendingDelay' = RetryDelay(attempt)
                         /\ UNCHANGED <<attempt, fetchResult>>
                    ELSE /\ attempt' = attempt + 1
                         /\ AfterLoop(attempt + 1, ErrorMessage(resp))
                         /\ UNCHANGED pendingDelay
    /\ UNCHANGED <<url, slept>>
    /\ UNCHANGED <<genVars, discVars, callVars, pipeVars, seriesVars>>

\* sleep(RETRY_DELAY * attempt) resolves; attempt++ and the loop test.
FetchWake ==
    /\ fetchPc = "sleep"
    /\ slept' = Append(slept, pendingDelay)
    /\ pendingDelay' = 0
    /\ attempt' = attempt + 1
    /\ AfterLoop(attempt + 1, lastError)
    /\ UNCHANGED <<url, lastError, requests>>
    /\ UNCHANGED <<genVars, discVars, callVars, pipeVars, seriesVars>>

----------------------------------------------------------------------------
(* storage.ts: slugify                                                     *)

\* Titles and slugs are sequences of characters of this alphabet.
LowerCaseChar(c) == IF c = "A" THEN "a" ELSE c

\* [^\w\s-] is removed: of the alphabet, only "!" is neither a word
\* character, nor whitespace, nor a hyphen.
IsWordSpaceOrHyphen(c) == c # "!"

Spaces == {" "}
Hyphens == {"-"}

RECURSIVE DropRun(_, _)
DropRun(s, chars) ==
    IF s # <<>> /\ Head(s) \in chars THEN DropRun(Tail(s), chars) ELSE s

\* replace(/x+/g, "-"): every maximal run of characters of chars becomes
\* one hyphen.
RECURSIVE ReplaceRuns(_, _)
ReplaceRuns(s, chars) ==
    IF s = <<>> THEN <<>>
    ELSE IF Head(s) \in chars
         THEN <<"-">> \o ReplaceRuns(DropRun(Tail(s), chars), chars)
         ELSE <<Head(s)>> \o ReplaceRuns(Tail(s), chars)

RECURSIVE DropTrailingSpace(_)
DropTrailingSpace(s) ==
    IF s # <<>> /\ s[Len(s)] \in Spaces
    THEN DropTrailingSpace(SubSeq(s, 1, Len(s) - 1))
    ELSE s

\* String.prototype.trim
Trim(s) == DropTrailingSpace(DropRun(s, Spaces))

slugify(text) ==
    LET lower == [i \in 1..Len(text) |-> LowerCaseChar(text[i])]
        kept == SelectSeq(lower, IsWordSpaceOrHyphen)
        dashed == ReplaceRuns(kept, Spaces)
        single == ReplaceRuns(dashed, Hyphens)
    IN Trim(single)

----------------------------------------------------------------------------
(* planner.ts, generator.ts: the Plan and Generate stages                  *)

\* Largest config.articleCount (--count) a command is run with.
MaxCount == 3
\* Number of values generateId() can return (8 hex digits of a random UUID
\* in the source).
NumIds == 2

Ids == 1..NumIds
Counts == 0..MaxCount

\* The articles the planning LLM proposes (Omit<ArticleBrief, "id"|"status">,
\* of which title, slug and platform matter here). <<>> is a missing slug.
\* The titles of ArticleAB and ArticleAb differ but slugify to the same
\* directory name.
\* pattern "" is a missing pattern. "stripes" is no member of the pattern
\* union of ArticleBrief, "twitter" none of its platform union: the answer
\* of the LLM is parsed JSON, cast to the type and not inspected.
ArticleAB ==
    [title |-> <<"a", " ", "b">>, slug |-> <<>>, platform |-> "both",
     pattern |-> ""]
ArticleAb ==
    [title |-> <<"A", "!", " ", "b">>, slug |-> <<"x">>,
     platform |-> "medium", pattern |-> "stripes"]
ArticleC ==
    [title |-> <<"c">>, slug |-> <<>>, platform |-> "linkedin",
     pattern |-> "grid"]
ArticleD ==
    [title |-> <<"c", "!">>, slug |-> <<>>, platform |-> "twitter",
     pattern |-> ""]

LlmArticles == {ArticleAB, ArticleAb, ArticleC, ArticleD}

PATTERN_OPTIONS == <<"dots", "grid", "waves", "circuit">>

\* planData.articles of a successful generateJsonWithClaude call: the
\* answers the model draws from.
LlmPlans ==
    { <<>>,
      <<ArticleC>>,
      <<ArticleD>>,
      <<ArticleAB, ArticleAb>>,
      <<ArticleAb, ArticleC>>,
      <<ArticleAB, ArticleC, ArticleAb>> }

DirNames == {slugify(t.title) : t \in LlmArticles}

NoFiles ==
    [article |-> FALSE, medium |-> FALSE, linkedin |-> FALSE,
     metadata |-> FALSE]
NoArticle ==
    [content |-> "undef", mediumContent |-> "undef",
     linkedinContent |-> "undef"]
NoPlanFile == [exists |-> FALSE, articles |-> <<>>]
NoCmd == [name |-> "none", result |-> "none"]

Min(a, b) == IF a < b THEN a ELSE b
Max(a, b) == IF a > b THEN a ELSE b

\* Array.prototype.slice(0, end), end an integer
slice0(s, end) ==
    LET e == IF end < 0 THEN Max(Len(s) + end, 0) ELSE Min(end, Len(s))
    IN SubSeq(s, 1, e)

\* Array.prototype.filter, as the indices it keeps: the i, in order, with
\* keep[i]
RECURSIVE FilterIndices(_, _)
FilterIndices(keep, i) ==
    IF i > Len(keep) THEN <<>>
    ELSE IF keep[i] THEN <<i>> \o FilterIndices(keep, i + 1)
         ELSE FilterIndices(keep, i + 1)

\* Variant of ArticlesToGenerate that selects one brief fewer than the
\* count.
ArticlesToGenerateOneFewer(list, count) ==
    LET keep == [i \in 1..Len(list) |-> list[i].status # "generated"]
    IN slice0(FilterIndices(keep, 1), Max(count - 1, 0))

\* Variant of ArticlesToGenerate without the filter on the status.
ArticlesToGenerateNoFilter(list, count) ==
    slice0([i \in 1..Len(list) |-> i], count)

\* plan.articles.filter((a) => a.status !== "generated")
\*              .slice(0, config.articleCount)
\* The result holds the brief objects of plan.articles themselves, hence
\* their indices.
ArticlesToGenerate(list, count) ==
    LET keep == [i \in 1..Len(list) |->
                    list[i].status # "generated"]
    IN slice0(FilterIndices(keep, 1), count)

\* readJson returned null for site-analysis.json: `if (!analysis)`
AnalysisMissing == ~siteAnalysis

\* Variant of PlanMissing in which the check of the plan never fires.
PlanMissingNever == FALSE

\* readJson returned null for article-plan.json: `if (!plan)`
PlanMissing == ~articlePlan.exists

\* The briefs planArticles builds from planData.articles: ids[i] is what
\* generateId() returned for the i-th.
BuildBriefs(list, count, ids) ==
    LET kept == slice0(list, count)
    IN [i \in 1..Len(kept) |->
          [id |-> ids[i],
           status |-> "planned",
           title |-> kept[i].title,
           slug |-> IF kept[i].slug # <<>> THEN kept[i].slug
                    ELSE slugify(kept[i].title),
           platform |-> kept[i].platform,
           pattern |-> IF kept[i].pattern # "" THEN kept[i].pattern
                       ELSE PATTERN_OPTIONS[((i - 1)
                                             % Len(PATTERN_OPTIONS)) + 1]]]

\* updateBlogPlanWithArticles: returns when blog-plan.md is missing, else
\* rewrites it with the recommended articles spliced in.
UpdateBlogPlan(md, briefs) ==
    IF ~md.exists THEN md
    ELSE [exists |-> TRUE,
          recommended |-> [i \in 1..Len(briefs) |-> briefs[i].title]]

GenFilesInit ==
    /\ siteAnalysis \in BOOLEAN
    /\ articlePlan = NoPlanFile
    /\ blogPlanMd = [exists |-> siteAnalysis, recommended |-> <<>>]
    /\ outputDir = FALSE
    /\ articleFiles = [d \in DirNames |-> NoFiles]
    /\ blogTs = [exists |-> FALSE, posts |-> <<>>]
    /\ readmeMd = FALSE

GenRunInit ==
    /\ genPc = "idle"
    /\ lastCmd = NoCmd
    /\ articleCount = 0
    /\ plan = <<>>
    /\ articlesToGenerate = <<>>
    /\ genIdx = 0
    /\ article = NoArticle
    /\ generatedArticles = <<>>
    /\ llmCalls = 0
    /\ invoked = <<>>
    /\ completed = 0

GenInit == GenFilesInit /\ GenRunInit

\* The process leaves generateArticles (return, throw or kill): what it held
\* in memory is gone.
Leave(result) ==
    /\ genPc' = "exit"
    /\ lastCmd' = [lastCmd EXCEPT !.result = result]
    /\ articleCount' = 0
    /\ plan' = <<>>
    /\ articlesToGenerate' = <<>>
    /\ genIdx' = 0
    /\ article' = NoArticle
    /\ generatedArticles' = <<>>
    /\ invoked' = <<>>
    /\ completed' = 0

\* planArticles, run to its end: one generateJsonWithClaude call, then the
\* two writes. llmCalls is the number of LLM calls the command made.
PlanArticles ==
    /\ genPc = "idle"
    /\ \E c \in Counts :
         \/ /\ AnalysisMissing
            /\ lastCmd' = [name |-> "plan", result |-> "run analyze first"]
            /\ llmCalls' = 0
            /\ UNCHANGED <<articlePlan, blogPlanMd>>
         \/ /\ ~AnalysisMissing
            \* generateJsonWithClaude throws (no text block, or the answer
            \* does not parse)
            /\ lastCmd' = [name |-> "plan", result |-> "llm-failed"]
            /\ llmCalls' = 1
            /\ UNCHANGED <<articlePlan, blogPlanMd>>
         \/ /\ ~AnalysisMissing
            /\ \E answer \in LlmPlans :
               \E ids \in [1..Len(slice0(answer, c)) -> Ids] :
                 LET briefs == BuildBriefs(answer, c, ids)
                 IN /\ articlePlan' = [exists |-> TRUE, articles |-> briefs]
                    /\ blogPlanMd' = UpdateBlogPlan(blogPlanMd, briefs)
            /\ lastCmd' = [name |-> "plan", result |-> "ok"]
            /\ llmCalls' = 1
    /\ genPc' = "exit"
    /\ UNCHANGED <<siteAnalysis, outputDir, articleFiles, blogTs, readmeMd>>
    /\ UNCHANGED <<articleCount, plan, articlesToGenerate, genIdx,
                   article, generatedArticles, invoked, completed>>
    /\ UNCHANGED <<fetchVars, discVars, callVars, pipeVars, seriesVars>>

\* Where generateSingleArticle continues after the article text: the
\* platform decides which of the two further LLM calls are made.
AfterContent(brief) ==
    IF brief.platform \in {"medium", "both"} THEN "medium"
    ELSE IF brief.platform \in {"linkedin", "both"} THEN "linkedin"
    ELSE "write"

AfterMedium(brief) ==
    IF brief.platform \in {"linkedin", "both"} THEN "linkedin" ELSE "write"

\* generateArticles up to its first LLM call: ensureDir, the two reads and
\* their checks, the selection of the briefs.
GenStart ==
    /\ genPc = "idle"
    /\ outputDir' = TRUE
    /\ llmCalls' = 0
    /\ IF AnalysisMissing
       THEN /\ lastCmd' = [name |-> "generate",
                           result |-> "run analyze first"]
            /\ genPc' = "exit"
            /\ UNCHANGED <<articleCount, plan, articlesToGenerate, genIdx,
                           invoked>>
       ELSE IF PlanMissing
       THEN /\ lastCmd' = [name |-> "generate", result |-> "run plan first"]
            /\ genPc' = "exit"
            /\ UNCHANGED <<articleCount, plan, articlesToGenerate, genIdx,
                           invoked>>
       ELSE \E c \in Counts :
            LET todo == ArticlesToGenerate(articlePlan.articles, c)
            IN /\ lastCmd' = [name |-> "generate", result |-> "running"]
               /\ articleCount' = c
               /\ plan' = articlePlan.articles
               /\ articlesToGenerate' = todo
               /\ genIdx' = IF todo = <<>> THEN 0 ELSE 1
               /\ genPc' = IF todo = <<>> THEN "savePlan" ELSE "article"
               /\ invoked' = IF todo = <<>> THEN <<>> ELSE <<todo[1]>>
    /\ UNCHANGED <<article, generatedArticles, completed>>
    /\ UNCHANGED <<siteAnalysis, articlePlan, blogPlanMd, articleFiles,
                   blogTs, readmeMd>>
    /\ UNCHANGED <<fetchVars, discVars, callVars, pipeVars, seriesVars>>

Brief == plan[articlesToGenerate[genIdx]]

\* What a generateWithClaude call returns: some text, or the empty string.
LlmTexts == {"text", "empty"}

\* Variant of GeneratedArticle whose briefId is no id of the plan.
GeneratedArticleOtherId(brief) ==
    [briefId |-> brief.id + NumIds, slug |-> brief.slug,
     title |-> brief.title]

\* The GeneratedArticle generateSingleArticle returns for a brief; its
\* fields other than the texts are copied from the brief.
GeneratedArticle(brief) ==
    [briefId |-> brief.id, slug |-> brief.slug, title |-> brief.title]

\* One generateWithClaude call of generateSingleArticle settles: it throws
\* (the run ends with the error), or returns the text for `field`.
LlmCall(pc, field, next) ==
    /\ genPc = pc
    /\ llmCalls' = llmCalls + 1
    /\ \/ /\ Leave("llm-failed")
       \/ /\ \E text \in LlmTexts :
               article' = [article EXCEPT ![field] = text]
          /\ genPc' = next
          /\ UNCHANGED <<lastCmd, articleCount, plan, articlesToGenerate,
                         genIdx, generatedArticles, invoked, completed>>
    /\ UNCHANGED fileVars
    /\ UNCHANGED <<fetchVars, discVars, callVars, pipeVars, seriesVars>>

GenArticle == LlmCall("article", "content", AfterContent(Brief))

GenMedium == LlmCall("medium", "mediumContent", AfterMedium(Brief))

GenLinkedin == LlmCall("linkedin", "linkedinContent", "write")

\* `if (article.mediumContent)`: written when defined and not empty
Truthy(text) == text = "text"

\* The files of one article directory after the loop body's writes.
WriteArticleFiles(files, art) ==
    [article |-> TRUE,
     medium |-> files.medium \/ Truthy(art.mediumContent),
     linkedin |-> files.linkedin \/ Truthy(art.linkedinContent),
     metadata |-> TRUE]

\* Variant of GenWrite that also writes article-plan.json after the status
\* flip of each brief.
GenWriteSavingPlan ==
    /\ genPc = "write"
    /\ LET i == articlesToGenerate[genIdx]
           dir == slugify(Brief.title)
       IN /\ generatedArticles' =
                Append(generatedArticles, GeneratedArticle(Brief))
          /\ articleFiles' =
                [articleFiles EXCEPT
                   ![dir] = WriteArticleFiles(@, article)]
          /\ plan' = [plan EXCEPT ![i].status = "generated"]
    /\ articlePlan' = [exists |-> TRUE, articles |-> plan']
    /\ completed' = completed + 1
    /\ article' = NoArticle
    /\ IF genIdx < Len(articlesToGenerate)
       THEN /\ genIdx' = genIdx + 1
            /\ genPc' = "article"
            /\ invoked' = Append(invoked, articlesToGenerate[genIdx + 1])
       ELSE /\ genPc' = "savePlan"
            /\ UNCHANGED <<genIdx, invoked>>
    /\ UNCHANGED <<lastCmd, articleCount, articlesToGenerate, llmCalls>>
    /\ UNCHANGED <<siteAnalysis, blogPlanMd, outputDir, blogTs, readmeMd>>
    /\ UNCHANGED <<fetchVars, discVars, callVars, pipeVars, seriesVars>>

\* The rest of the loop body once generateSingleArticle has returned: push,
\* the file writes, the status flip in memory; then the next iteration
\* calls generateSingleArticle, or the loop ends.
GenWrite ==
    /\ genPc = "write"
    /\ LET i == articlesToGenerate[genIdx]
           dir == slugify(Brief.title)
       IN /\ generatedArticles' =
                Append(generatedArticles, GeneratedArticle(Brief))
          /\ articleFiles' =
                [articleFiles EXCEPT
                   ![dir] = WriteArticleFiles(@, article)]
          /\ plan' = [plan EXCEPT ![i].status = "generated"]
    /\ completed' = completed + 1
    /\ article' = NoArticle
    /\ IF genIdx < Len(articlesToGenerate)
       THEN /\ genIdx' = genIdx + 1
            /\ genPc' = "article"
            /\ invoked' = Append(invoked, articlesToGenerate[genIdx + 1])
       ELSE /\ genPc' = "savePlan"
            /\ UNCHANGED <<genIdx, invoked>>
    /\ UNCHANGED <<lastCmd, articleCount, articlesToGenerate, llmCalls>>
    /\ UNCHANGED <<siteAnalysis, articlePlan, blogPlanMd, outputDir, blogTs,
                   readmeMd>>
    /\ UNCHANGED <<fetchVars, discVars, callVars, pipeVars, seriesVars>>

\* writeJson(article-plan.json, plan), after the loop
GenSavePlan ==
    /\ genPc = "savePlan"
    /\ articlePlan' = [exists |-> TRUE, articles |-> plan]
    /\ genPc' = "blogMetadata"
    /\ UNCHANGED <<lastCmd, articleCount, plan, articlesToGenerate, genIdx,
                   article, generatedArticles>>
    /\ UNCHANGED obsVars
    /\ UNCHANGED <<siteAnalysis, blogPlanMd, outputDir, articleFiles, blogTs,
                   readmeMd>>
    /\ UNCHANGED <<fetchVars, discVars, callVars, pipeVars, seriesVars>>

\* blogPosts of generateBlogMetadata: one entry per article of the array
BlogPosts(list) ==
    [i \in 1..Len(list) |->
        [slug |-> list[i].slug, title |-> list[i].title]]

\* generateBlogMetadata(generatedArticles, ...) writes blog.ts and README.md;
\* generateArticles returns.
GenBlogMetadata ==
    /\ genPc = "blogMetadata"
    /\ blogTs' = [exists |-> TRUE, posts |-> BlogPosts(generatedArticles)]
    /\ readmeMd' = TRUE
    /\ Leave("ok")
    /\ UNCHANGED llmCalls
    /\ UNCHANGED <<siteAnalysis, articlePlan, blogPlanMd, outputDir,
                   articleFiles>>
    /\ UNCHANGED <<fetchVars, discVars, callVars, pipeVars, seriesVars>>

\* The process dies while generateArticles is suspended at an await.
GenCrash ==
    /\ genPc \notin {"idle", "exit"}
    /\ Leave("crashed")
    /\ UNCHANGED llmCalls
    /\ UNCHANGED fileVars
    /\ UNCHANGED <<fetchVars, discVars, callVars, pipeVars, seriesVars>>

\* index.ts: the command's action handler is over (success message, or the
\* error message and process.exit(1)); the next command can be run.
CommandExit ==
    /\ genPc = "exit"
    /\ genPc' = "idle"
    /\ lastCmd' = NoCmd
    /\ llmCalls' = 0
    /\ UNCHANGED <<articleCount, plan, articlesToGenerate, genIdx, article,
                   generatedArticles, invoked, completed>>
    /\ UNCHANGED fileVars
    /\ UNCHANGED <<fetchVars, discVars, callVars, pipeVars, seriesVars>>

----------------------------------------------------------------------------
(* fetcher.ts, discover.ts: URLs, link extraction, the Discover stage      *)

\* A URL is its hostname, the segments of its pathname, and whether the
\* pathname ends with a slash ("/blog/" against "/blog"; the root is "/").
Url(host, path, slash) == [host |-> host, path |-> path, slash |-> slash]

SiteHost == "site.com"
NoUrl == Url("none", <<>>, FALSE)
SiteUrl == Url(SiteHost, <<>>, TRUE)

UrlBlog == Url(SiteHost, <<"blog">>, FALSE)
UrlPost1 == Url(SiteHost, <<"blog", "post-1">>, FALSE)
UrlPost2 == Url(SiteHost, <<"Blog", "post-2">>, FALSE)
UrlPost3 == Url(SiteHost, <<"news", "post-3">>, TRUE)
UrlTagAi == Url(SiteHost, <<"blog", "tag", "ai">>, FALSE)
UrlAbout == Url(SiteHost, <<"about">>, FALSE)
UrlElsewhere == Url("other.com", <<"blog">>, FALSE)

\* toLowerCase of a path segment (the /i flag of the patterns)
SegLower(seg) == IF seg = "Blog" THEN "blog" ELSE seg

\* pattern /\/(w1|w2|...)\/?$/i on the pathname
MatchesAtEnd(u, words) ==
    /\ u.path # <<>>
    /\ SegLower(u.path[Len(u.path)]) \in words

\* pattern /\/(w1|w2|...)\//i on the pathname
MatchesBeforeSlash(u, words) ==
    \E i \in 1..Len(u.path) :
        /\ SegLower(u.path[i]) \in words
        /\ (i < Len(u.path) \/ u.slash)

\* blogPatterns.some((pattern) => pattern.test(path))
IsBlogPath(u) ==
    \/ MatchesAtEnd(u, {"blog", "news", "article", "articles", "post",
                        "posts", "insight", "insights", "resource",
                        "resources"})
    \/ MatchesBeforeSlash(u, {"blog", "news", "article", "articles", "post",
                              "posts"})

\* [...new Set(links)]: the first occurrence of each element, in order
RECURSIVE Dedupe(_)
Dedupe(s) ==
    IF s = <<>> THEN <<>>
    ELSE LET front == Dedupe(SubSeq(s, 1, Len(s) - 1))
             last == s[Len(s)]
         IN IF \E i \in 1..Len(front) : front[i] = last THEN front
            ELSE Append(front, last)

\* findBlogLinks(html, baseUrl): html is given by the hrefs of its anchors,
\* resolved, in document order.
findBlogLinks(html, baseUrl) ==
    Dedupe(SelectSeq(html.links,
                     LAMBDA u : u.host = baseUrl.host /\ IsBlogPath(u)))

\* Path segments of the model that begin with one of tag, category, author,
\* page, search, login, signup: the pattern
\* /\/(tag|category|author|page|search|login|signup)/i has no end anchor.
DeniedSegments == {"tag", "tagging"}

IsDeniedPath(u) ==
    \E i \in 1..Len(u.path) : SegLower(u.path[i]) \in DeniedSegments

\* Variant of extractArticleLinks that lacks !articleUrls.includes(url.href)
\* and the closing [...new Set(articleUrls)].
RECURSIVE extractArticleLinksRepeating(_, _)
extractArticleLinksRepeating(links, baseUrl) ==
    IF links = <<>> THEN <<>>
    ELSE LET front == extractArticleLinksRepeating(
                          SubSeq(links, 1, Len(links) - 1), baseUrl)
             u == links[Len(links)]
         IN IF /\ u.host = baseUrl.host
               /\ ~IsDeniedPath(u)
               /\ <<u.path, u.slash>> # <<baseUrl.path, baseUrl.slash>>
            THEN Append(front, u)
            ELSE front

\* extractArticleLinks(html, baseUrl): every anchor of the model's pages
\* lies in an element one of the articleSelectors matches.
RECURSIVE extractArticleLinks(_, _)
extractArticleLinks(links, baseUrl) ==
    IF links = <<>> THEN <<>>
    ELSE LET front == extractArticleLinks(SubSeq(links, 1, Len(links) - 1),
                                          baseUrl)
             u == links[Len(links)]
         IN IF /\ u.host = baseUrl.host
               /\ ~\E i \in 1..Len(front) : front[i] = u
               /\ ~IsDeniedPath(u)
               /\ <<u.path, u.slash>> # <<baseUrl.path, baseUrl.slash>>
            THEN Append(front, u)
            ELSE front

\* config.rateLimit (BLOG_BUILDER_RATE_LIMIT, default "1000")
RateLimit == 1000
\* articleUrls.slice(0, 20)
ArticleLimit == 20
\* content.length < 100
MinContentLength == 100
\* content.slice(0, 5000)
StoredContentLength == 5000

commonPaths == <<"blog", "news", "articles", "insights", "resources">>

\* A page the site answers a fetch with: the hrefs of its anchors, the title
\* extractMetadata finds, the length of the text extractMainContent returns.
Page(links, title, len) == [links |-> links, title |-> title, len |-> len]

Pages ==
    { Page(<<>>, "", 0),
      Page(<<UrlAbout, UrlElsewhere>>, "Home", 100),
      Page(<<UrlAbout, UrlBlog, UrlPost1>>, "Home", 100),
      Page(<<UrlPost1, UrlPost2, UrlTagAi, UrlBlog, UrlPost1, UrlPost3>>,
           "Blog", 99),
      Page(<<>>, "T", 5001),
      Page(<<UrlPost2>>, "", 100) }

\* Variant of IsRealArticle that tests the title only.
IsRealArticleTitleOnly(page) == page.title # ""

\* `if (!metadata.title || content.length < 100) return null`
IsRealArticle(page) ==
    ~(page.title = "" \/ page.len < MinContentLength)

\* The ExistingArticle fetchArticle returns for a page that passes.
ExistingArticle(u, page) ==
    [url |-> u, title |-> page.title,
     content |-> Min(page.len, StoredContentLength)]

\* Variant of ArticleErrorCaught without the try/catch.
ArticleErrorCaughtNever == FALSE

\* The try/catch around the loop body of the article loop: an error thrown
\* by fetchArticle is caught and the loop goes on.
ArticleErrorCaught == TRUE

FetchEvent(u) == [op |-> "fetchPage", url |-> u, ms |-> 0]
SleepEvent == [op |-> "sleep", url |-> NoUrl, ms |-> RateLimit]
NoEvent == [op |-> "none", url |-> NoUrl, ms |-> 0]

\* discoverArticles is suspended at `await fetchPage(...)`.
AwaitsFetch(pc) == pc \in {"main", "probe", "listing", "article"}

\* Variant of Settled in which the request outlives the await.
SettledNever(n) == n

\* The awaited fetchPage call has returned or thrown: its last request is
\* over.
Settled(n) == n - 1

\* discoverArticles runs on to its next await; when that is a fetchPage
\* call, the call is started.
StartsNext(n) == n + (IF AwaitsFetch(discPc') THEN 1 ELSE 0)

\* fetchPage(u) was called, and has settled
Fetches(u) ==
    /\ fetchCalls' = fetchCalls + 1
    /\ lastEvent' = FetchEvent(u)

\* sleep(config.rateLimit) has been awaited
Sleeps ==
    /\ lastEvent' = SleepEvent
    /\ UNCHANGED fetchCalls

NoInventory ==
    [exists |-> FALSE, blogUrl |-> NoUrl, articleCount |-> 0,
     articles |-> <<>>]

\* Variant of Inventory that keeps the articles of the file it replaces.
InventoryMerged(listing, list) ==
    [exists |-> TRUE, blogUrl |-> listing,
     articleCount |-> Len(list),
     articles |-> existingArticles.articles \o list]

\* The document written to existing-articles.json:
\* {discoveredAt, blogUrl, articleCount: articles.length, articles}
Inventory(listing, list) ==
    [exists |-> TRUE, blogUrl |-> listing,
     articleCount |-> Len(list), articles |-> list]

DiscInit ==
    /\ existingArticles = NoInventory
    /\ discPc = "idle"
    /\ discResult = "none"
    /\ blogLinks = <<>>
    /\ probeIdx = 0
    /\ blogListingUrl = NoUrl
    /\ articleUrls = <<>>
    /\ artIdx = 0
    /\ articles = <<>>
    /\ inFlight = 0
    /\ fetchCalls = 0
    /\ lastEvent = NoEvent
    /\ seen = <<>>

\* blogLinks.find(...) on the listing pattern, else blogLinks[0]
ListingOf(links) ==
    LET hits == SelectSeq(links,
                          LAMBDA u : MatchesAtEnd(u, {"blog", "news",
                                                      "articles"}))
    IN IF hits # <<>> THEN hits[1]
       ELSE IF links # <<>> THEN links[1]
       ELSE NoUrl

\* Lines 43-52: the listing page is chosen; without one the run goes on to
\* save the (empty) inventory.
ChooseListing(links) ==
    /\ blogListingUrl' = ListingOf(links)
    /\ discPc' = IF ListingOf(links) # NoUrl THEN "listing" ELSE "save"

\* An uncaught error leaves discoverArticles.
DiscThrow ==
    /\ discPc' = "exit"
    /\ discResult' = "error"

\* discoverArticles is called: fetchPage(url) for the main page is started.
DiscoverStart ==
    /\ discPc = "idle"
    /\ discPc' = "main"
    /\ inFlight' = StartsNext(inFlight)
    /\ UNCHANGED <<existingArticles, discResult, blogLinks, probeIdx,
                   blogListingUrl, articleUrls, artIdx, articles, fetchCalls,
                   lastEvent, seen>>
    /\ UNCHANGED <<fetchVars, genVars, callVars, pipeVars, seriesVars>>

\* fetchPage(url) for the main page settles.
DiscoverMain ==
    /\ discPc = "main"
    /\ Fetches(SiteUrl)
    /\ \/ /\ DiscThrow
          /\ UNCHANGED <<blogLinks, probeIdx, blogListingUrl>>
       \/ \E html \in Pages :
            LET found == findBlogLinks(html, SiteUrl)
            IN /\ blogLinks' = found
               /\ discResult' = "running"
               /\ IF found = <<>>
                  THEN /\ probeIdx' = 1
                       /\ discPc' = "probe"
                       /\ UNCHANGED blogListingUrl
                  ELSE /\ ChooseListing(found)
                       /\ UNCHANGED probeIdx
    /\ inFlight' = StartsNext(Settled(inFlight))
    /\ UNCHANGED <<existingArticles, articleUrls, artIdx, articles, seen>>
    /\ UNCHANGED <<fetchVars, genVars, callVars, pipeVars, seriesVars>>

\* The loop over commonPaths goes to its next path, or ends.
NextProbe ==
    IF probeIdx < Len(commonPaths)
    THEN /\ probeIdx' = probeIdx + 1
         /\ discPc' = "probe"
         /\ UNCHANGED blogListingUrl
    ELSE /\ ChooseListing(blogLinks)
         /\ UNCHANGED probeIdx

\* One common path is probed: fetchPage(blogUrl) settles. A throw is
\* caught and the next path is tried at once; links found end the loop;
\* no link found starts sleep(config.rateLimit).
DiscoverProbe ==
    /\ discPc = "probe"
    /\ LET blogUrl == Url(SiteHost, <<commonPaths[probeIdx]>>, FALSE)
       IN /\ Fetches(blogUrl)
          /\ \/ /\ NextProbe
                /\ UNCHANGED blogLinks
             \/ \E html \in Pages :
                  LET links == findBlogLinks(html, blogUrl)
                  IN /\ blogLinks' = blogLinks \o links
                     /\ IF links # <<>>
                        THEN /\ ChooseListing(blogLinks \o links)
                             /\ UNCHANGED probeIdx
                        ELSE /\ discPc' = "probeSleep"
                             /\ UNCHANGED <<probeIdx, blogListingUrl>>
    /\ inFlight' = StartsNext(Settled(inFlight))
    /\ UNCHANGED <<existingArticles, discResult, articleUrls, artIdx,
                   articles, seen>>
    /\ UNCHANGED <<fetchVars, genVars, callVars, pipeVars, seriesVars>>

\* The sleep of the probing loop resolves.
DiscoverProbeSleep ==
    /\ discPc = "probeSleep"
    /\ Sleeps
    /\ NextProbe
    /\ inFlight' = StartsNext(inFlight)
    /\ UNCHANGED <<existingArticles, discResult, blogLinks, articleUrls,
                   artIdx, articles, seen>>
    /\ UNCHANGED <<fetchVars, genVars, callVars, pipeVars, seriesVars>>

\* fetchPage(blogListingUrl) settles; the candidates are extracted.
DiscoverListing ==
    /\ discPc = "listing"
    /\ Fetches(blogListingUrl)
    /\ \/ /\ DiscThrow
          /\ UNCHANGED <<articleUrls, artIdx>>
       \/ \E html \in Pages :
            LET urls == slice0(extractArticleLinks(html.links,
                                                   blogListingUrl),
                               ArticleLimit)
            IN /\ articleUrls' = urls
               /\ artIdx' = IF urls = <<>> THEN 0 ELSE 1
               /\ discPc' = IF urls = <<>> THEN "save" ELSE "article"
               /\ UNCHANGED discResult
    /\ inFlight' = StartsNext(Settled(inFlight))
    /\ UNCHANGED <<existingArticles, blogLinks, probeIdx, blogListingUrl,
                   articles, seen>>
    /\ UNCHANGED <<fetchVars, genVars, callVars, pipeVars, seriesVars>>

\* The loop over the candidates goes to its next candidate, or ends.
NextArticle ==
    IF artIdx < Len(articleUrls)
    THEN /\ artIdx' = artIdx + 1
         /\ discPc' = "article"
    ELSE /\ discPc' = "save"
         /\ UNCHANGED artIdx

Saw(u, page, outcome) ==
    [url |-> u, fetched |-> outcome # "threw", title |-> page.title,
     len |-> page.len, outcome |-> outcome]

\* fetchArticle(articleUrl) settles. It throws (its fetchPage failed, or
\* the page could not be processed): the catch skips the candidate and the
\* loop goes on at once. It returns null or an article: the article is
\* pushed, and sleep(config.rateLimit) starts.
DiscoverArticle ==
    /\ discPc = "article"
    /\ LET u == articleUrls[artIdx]
       IN /\ Fetches(u)
          /\ \/ /\ seen' = Append(seen, Saw(u, Page(<<>>, "", 0), "threw"))
                /\ IF ArticleErrorCaught
                   THEN NextArticle /\ UNCHANGED discResult
                   ELSE DiscThrow /\ UNCHANGED artIdx
                /\ UNCHANGED articles
             \/ \E html \in Pages :
                  /\ IF IsRealArticle(html)
                     THEN /\ articles' =
                                Append(articles, ExistingArticle(u, html))
                          /\ seen' = Append(seen, Saw(u, html, "added"))
                     ELSE /\ seen' = Append(seen, Saw(u, html, "dropped"))
                          /\ UNCHANGED articles
                  /\ discPc' = "articleSleep"
                  /\ UNCHANGED <<artIdx, discResult>>
    /\ inFlight' = StartsNext(Settled(inFlight))
    /\ UNCHANGED <<existingArticles, blogLinks, probeIdx, blogListingUrl,
                   articleUrls>>
    /\ UNCHANGED <<fetchVars, genVars, callVars, pipeVars, seriesVars>>

\* The sleep of the article loop resolves.
DiscoverArticleSleep ==
    /\ discPc = "articleSleep"
    /\ Sleeps
    /\ NextArticle
    /\ inFlight' = StartsNext(inFlight)
    /\ UNCHANGED <<existingArticles, discResult, blogLinks, probeIdx,
                   blogListingUrl, articleUrls, articles, seen>>
    /\ UNCHANGED <<fetchVars, genVars, callVars, pipeVars, seriesVars>>

\* writeJson(existing-articles.json, ...); discoverArticles returns.
DiscoverSave ==
    /\ discPc = "save"
    /\ existingArticles' = Inventory(blogListingUrl, articles)
    /\ discPc' = "exit"
    /\ discResult' = "ok"
    /\ UNCHANGED <<blogLinks, probeIdx, blogListingUrl, articleUrls, artIdx,
                   articles, inFlight, fetchCalls, lastEvent, seen>>
    /\ UNCHANGED <<fetchVars, genVars, callVars, pipeVars, seriesVars>>

\* index.ts: the discover command is over; the next one can be run.
DiscoverExit ==
    /\ discPc = "exit"
    /\ discPc' = "idle"
    /\ discResult' = "none"
    /\ blogLinks' = <<>>
    /\ probeIdx' = 0
    /\ blogListingUrl' = NoUrl
    /\ articleUrls' = <<>>
    /\ artIdx' = 0
    /\ articles' = <<>>
    /\ inFlight' = 0
    /\ fetchCalls' = 0
    /\ lastEvent' = NoEvent
    /\ seen' = <<>>
    /\ UNCHANGED existingArticles
    /\ UNCHANGED <<fetchVars, genVars, callVars, pipeVars, seriesVars>>

----------------------------------------------------------------------------
(* fetcher.ts, discover.ts, claude.ts: the functions called on their own   *)

CallInit ==
    /\ callOp = "none"
    /\ callArg = <<>>
    /\ callBase = NoUrl
    /\ callResult = <<>>

\* The href attribute of an anchor: an absolute URL, a path relative to the
\* base ("/blog/post-1"), a string `new URL(href, base)` throws on, or the
\* empty string.
Href(kind, u) == [kind |-> kind, url |-> u]

\* `if (!href) return`, and the try/catch around new URL(href, base)
Resolves2Url(href) == href.kind \in {"abs", "rel"}

\* new URL(href, base)
Resolve(href, base) ==
    IF href.kind = "rel"
    THEN Url(base.host, href.url.path, href.url.slash)
    ELSE href.url

\* An anchor of a page: its href, and the first of the articleSelectors of
\* extractArticleLinks that matches it (0: none does).
Anchor(href, sel) == [href |-> href, sel |-> sel]

UrlTagging == Url(SiteHost, <<"blog", "tagging">>, FALSE)
UrlPost(n) == Url(SiteHost, <<"blog", n>>, FALSE)

Anchors ==
    { Anchor(Href("abs", UrlPost1), 1),
      Anchor(Href("rel", UrlPost1), 2),
      Anchor(Href("abs", UrlPost2), 2),
      Anchor(Href("abs", UrlAbout), 0),
      Anchor(Href("abs", UrlElsewhere), 1),
      Anchor(Href("bad", NoUrl), 1),
      Anchor(Href("empty", NoUrl), 1),
      Anchor(Href("abs", UrlTagAi), 1),
      Anchor(Href("abs", UrlTagging), 1),
      Anchor(Href("rel", UrlBlog), 1) }

\* Longest page, in anchors, the functions are called with.
MaxAnchors == 3

\* A listing page with five article anchors inside .blog-post and one
\* anchor to /blog/tag/ai.
ListingWithTagLink ==
    << Anchor(Href("abs", UrlPost("p1")), 1),
       Anchor(Href("abs", UrlPost("p2")), 1),
       Anchor(Href("abs", UrlTagAi), 1),
       Anchor(Href("abs", UrlPost("p3")), 1),
       Anchor(Href("rel", UrlPost("p4")), 1),
       Anchor(Href("abs", UrlPost("p5")), 1) >>

AnchorPages ==
    UNION {[1..n -> Anchors] : n \in 0..MaxAnchors} \cup {ListingWithTagLink}

CallBases == {UrlBlog, SiteUrl}

\* The URLs of the anchors the each() callback gets past `new URL`, in
\* order.
Resolved(anchors, base) ==
    LET ok == SelectSeq(anchors, LAMBDA a : Resolves2Url(a.href))
    IN [i \in 1..Len(ok) |-> Resolve(ok[i].href, base)]

\* Variant of extractLinks without the final `new Set`.
extractLinksAll(anchors, baseUrl) ==
    SelectSeq(Resolved(anchors, baseUrl), LAMBDA u : u.host = baseUrl.host)

\* extractLinks(html, baseUrl): html is given by its anchors.
extractLinks(anchors, baseUrl) ==
    Dedupe(SelectSeq(Resolved(anchors, baseUrl),
                     LAMBDA u : u.host = baseUrl.host))

\* The anchors in the order the loops of extractArticleLinks visit them for
\* the first time: selector by selector, in document order for each.
MaxSelector == 2
RECURSIVE VisitOrder(_, _)
VisitOrder(anchors, sel) ==
    IF sel > MaxSelector THEN <<>>
    ELSE SelectSeq(anchors, LAMBDA a : a.sel = sel)
            \o VisitOrder(anchors, sel + 1)

CallExtractLinks ==
    /\ callOp = "none"
    /\ \E anchors \in AnchorPages, base \in CallBases :
          /\ callOp' = "extractLinks"
          /\ callArg' = anchors
          /\ callBase' = base
          /\ callResult' = extractLinks(anchors, base)
    /\ UNCHANGED <<fetchVars, genVars, discVars, pipeVars, seriesVars>>

CallExtractArticleLinks ==
    /\ callOp = "none"
    /\ \E anchors \in AnchorPages, base \in CallBases :
          /\ callOp' = "extractArticleLinks"
          /\ callArg' = anchors
          /\ callBase' = base
          /\ callResult' =
                extractArticleLinks(Resolved(VisitOrder(anchors, 1), base),
                                    base)
    /\ UNCHANGED <<fetchVars, genVars, discVars, pipeVars, seriesVars>>

\* Where the anchors of the pages findBlogLinks is called with lead.
UrlInsightsReport == Url(SiteHost, <<"insights", "q3-report">>, FALSE)
UrlResources == Url(SiteHost, <<"resources">>, TRUE)
UrlResourcesGuide == Url(SiteHost, <<"resources", "guide">>, TRUE)
UrlBlogger == Url(SiteHost, <<"blogger">>, FALSE)

BlogCandidates ==
    { UrlBlog, UrlPost1, UrlPost2, UrlPost3, UrlAbout, UrlElsewhere,
      UrlInsightsReport, UrlResources, UrlResourcesGuide, UrlBlogger }

\* Longest page, in anchors, findBlogLinks is called with.
MaxBlogAnchors == 2

LinkPages == UNION {[1..n -> BlogCandidates] : n \in 0..MaxBlogAnchors}

CallFindBlogLinks ==
    /\ callOp = "none"
    /\ \E links \in LinkPages, base \in CallBases :
          /\ callOp' = "findBlogLinks"
          /\ callArg' = links
          /\ callBase' = base
          /\ callResult' = findBlogLinks(Page(links, "", 0), base)
    /\ UNCHANGED <<fetchVars, genVars, discVars, pipeVars, seriesVars>>

\* Those of the topicPatterns of extractTopicsFromContent that occur in the
\* texts of the model, in their order.
topicPatterns == <<"ai", "startup", "saas", "product", "data", "cloud">>

\* topics.slice(0, 5)
MaxTopics == 5

\* The words of the body texts the function is called with. A body text is
\* a sequence of words; a space stands between two of them.
BodyWords == {"AI", "maintain", "Database", "the"}

\* toLowerCase of a word
WordLower(w) ==
    IF w = "AI" THEN "ai" ELSE IF w = "Database" THEN "database" ELSE w

\* The patterns that are substrings of a lower-case word.
PatternsIn(w) ==
    IF w \in {"ai", "maintain"} THEN {"ai"}
    ELSE IF w = "database" THEN {"data"}
    ELSE IF w \in {"startup", "saas", "product", "cloud"} THEN {w}
    ELSE {}

\* content.toLowerCase()
ContentLower(content) == [i \in 1..Len(content) |-> WordLower(content[i])]

\* contentLower.includes(pattern)
Includes(contentLower, pattern) ==
    \E i \in 1..Len(contentLower) : pattern \in PatternsIn(contentLower[i])

\* topics.includes(pattern)
TopicsInclude(topics, pattern) ==
    \E i \in 1..Len(topics) : topics[i] = pattern

\* The loop over topicPatterns, from the i-th pattern on.
RECURSIVE AddTopics(_, _, _)
AddTopics(topics, contentLower, i) ==
    IF i > Len(topicPatterns) THEN topics
    ELSE AddTopics(IF /\ Includes(contentLower, topicPatterns[i])
                      /\ ~TopicsInclude(topics, topicPatterns[i])
                   THEN Append(topics, topicPatterns[i])
                   ELSE topics,
                   contentLower, i + 1)

\* extractTopicsFromContent(content, keywords)
extractTopicsFromContent(content, keywords) ==
    slice0(AddTopics(keywords, ContentLower(content), 1), MaxTopics)

\* Longest body text, in words, and longest keyword list drawn from
\* KeywordWords.
MaxBodyWords == 2
MaxKeywords == 2

\* What the keywords meta tag of a page lists, split at the commas, trimmed,
\* without the empty entries.
KeywordWords == {"ai", "AI", "seo", "data"}

BodyTexts ==
    UNION {[1..n -> BodyWords] : n \in 0..MaxBodyWords}
        \cup {<<"AI", "startup", "saas", "product", "Database", "cloud">>}

KeywordLists ==
    UNION {[1..n -> KeywordWords] : n \in 0..MaxKeywords}
        \cup {<<"seo", "k2", "k3", "k4", "k5", "k6">>,
              <<"seo", "k2", "k3", "data">>}

CallExtractTopics ==
    /\ callOp = "none"
    /\ \E content \in BodyTexts, keywords \in KeywordLists :
          /\ callOp' = "extractTopicsFromContent"
          /\ callArg' = <<content, keywords>>
          /\ callResult' = extractTopicsFromContent(content, keywords)
    /\ UNCHANGED callBase
    /\ UNCHANGED <<fetchVars, genVars, discVars, pipeVars, seriesVars>>

\* An element of the body of a page: its tag, its own text (a sequence of
\* words and whitespace characters), and its child elements, whose text
\* follows its own.
Element(tag, text, kids) == [tag |-> tag, text |-> text, kids |-> kids]

Whitespace == {" ", "\n"}

ElementTexts == {<<>>, <<"menu", " ", "\n">>, <<" ", "story">>}

ChildElements ==
    {Element(tag, text, <<>>) :
        tag \in {"nav", "main"}, text \in ElementTexts \ {<<>>}}

Elements ==
    {Element(tag, text, kids) :
        tag \in {"nav", "script", "main", "article", "div"},
        text \in ElementTexts,
        kids \in {<<>>} \cup {<<k>> : k \in ChildElements}}

\* Largest number of elements directly under the body.
MaxElements == 2

Documents == UNION {[1..n -> Elements] : n \in 0..MaxElements}

\* Variant of IsBoilerplate that knows script and style only.
IsBoilerplateScriptOnly(e) == e.tag \in {"script", "style"}

\* The elements `$("script, style, nav, header, footer, aside, ...").remove()`
\* removes, with everything inside them.
IsBoilerplate(e) ==
    e.tag \in {"script", "style", "nav", "header", "footer", "aside"}

\* The body after the remove().
RemoveBoilerplate(doc) ==
    LET top == SelectSeq(doc, LAMBDA e : ~IsBoilerplate(e))
    IN [i \in 1..Len(top) |->
          [top[i] EXCEPT
             !.kids = SelectSeq(@, LAMBDA k : ~IsBoilerplate(k))]]

RECURSIVE Concat(_)
Concat(texts) ==
    IF texts = <<>> THEN <<>> ELSE Head(texts) \o Concat(Tail(texts))

\* element.text(): the text of the element and of its descendants
TextOf(e) == e.text \o Concat([i \in 1..Len(e.kids) |-> e.kids[i].text])

\* $("body").text()
BodyText(doc) == Concat([i \in 1..Len(doc) |-> TextOf(doc[i])])

\* The elements of the body in document order.
InDocumentOrder(doc) ==
    Concat([i \in 1..Len(doc) |-> <<doc[i]>> \o doc[i].kids])

\* The mainSelectors the elements of the model can match, in their order.
mainSelectors == <<"main", "article">>

\* The loop over mainSelectors: the text of the first element of the first
\* selector that matches anything; "" when no selector matches.
RECURSIVE MainText(_, _)
MainText(doc, i) ==
    IF i > Len(mainSelectors) THEN <<>>
    ELSE LET hits == SelectSeq(InDocumentOrder(doc),
                               LAMBDA e : e.tag = mainSelectors[i])
         IN IF hits # <<>> THEN TextOf(hits[1]) ELSE MainText(doc, i + 1)

\* replace(/\s+/g, " "): every run of whitespace becomes one space
RECURSIVE CollapseWhitespace(_)
CollapseWhitespace(s) ==
    IF s = <<>> THEN <<>>
    ELSE IF Head(s) \in Whitespace
         THEN <<" ">> \o CollapseWhitespace(DropRun(Tail(s), Whitespace))
         ELSE <<Head(s)>> \o CollapseWhitespace(Tail(s))

\* extractMainContent(html): html is given by the elements of its body.
\* The second replace, /\n\s*\n/g, finds nothing after the first.
extractMainContent(doc) ==
    LET kept == RemoveBoilerplate(doc)
        found == MainText(kept, 1)
        content == IF found = <<>> THEN BodyText(kept) ELSE found
    IN Trim(CollapseWhitespace(content))

CallExtractMainContent ==
    /\ callOp = "none"
    /\ \E doc \in Documents :
          /\ callOp' = "extractMainContent"
          /\ callArg' = doc
          /\ callResult' = extractMainContent(doc)
    /\ UNCHANGED callBase
    /\ UNCHANGED <<fetchVars, genVars, discVars, pipeVars, seriesVars>>

\* The text the LLM answers with, as a sequence of pieces, each a kind and
\* a length in characters: "fence" is ```, "json" the word json after a
\* fence, "ws" a whitespace character, "obj" a JSON value, "junk" text that
\* is no JSON and holds none of the others.
Piece(t, n) == [t |-> t, n |-> n]

Pieces ==
    { Piece("fence", 3), Piece("json", 4), Piece("ws", 1), Piece("obj", 2),
      Piece("junk", 1), Piece("junk", 250) }

\* Longest answer, in pieces.
MaxPieces == 4

Responses2Json == UNION {[1..n -> Pieces] : n \in 0..MaxPieces}

RECURSIVE CharLen(_)
CharLen(text) ==
    IF text = <<>> THEN 0 ELSE Head(text).n + CharLen(Tail(text))

RECURSIVE TrimStart(_)
TrimStart(text) ==
    IF text # <<>> /\ Head(text).t = "ws" THEN TrimStart(Tail(text))
    ELSE text

RECURSIVE TrimEnd(_)
TrimEnd(text) ==
    IF text # <<>> /\ text[Len(text)].t = "ws"
    THEN TrimEnd(SubSeq(text, 1, Len(text) - 1))
    ELSE text

\* String.prototype.trim on a text of pieces
TrimText(text) == TrimEnd(TrimStart(text))

\* Variant of StripLeadingFence that strips every leading fence.
RECURSIVE StripLeadingFences(_)
StripLeadingFences(text) ==
    IF text # <<>> /\ Head(text).t = "fence"
    THEN StripLeadingFences(Tail(text))
    ELSE text

\* if (jsonStr.startsWith("```json")) slice(7)
\* else if (jsonStr.startsWith("```")) slice(3)
StripLeadingFence(text) ==
    IF Len(text) >= 2 /\ text[1].t = "fence" /\ text[2].t = "json"
    THEN SubSeq(text, 3, Len(text))
    ELSE IF text # <<>> /\ text[1].t = "fence"
    THEN Tail(text)
    ELSE text

\* if (jsonStr.endsWith("```")) slice(0, -3)
StripTrailingFence(text) ==
    IF text # <<>> /\ text[Len(text)].t = "fence"
    THEN SubSeq(text, 1, Len(text) - 1)
    ELSE text

\* JSON.parse(jsonStr) returns
Parses(text) == text = <<Piece("obj", 2)>>

PreviewLength == 200

\* String.prototype.slice(0, k), k >= 0, on a text of pieces
RECURSIVE TakeChars(_, _)
TakeChars(text, k) ==
    IF text = <<>> \/ k = 0 THEN <<>>
    ELSE IF Head(text).n <= k
         THEN <<Head(text)>> \o TakeChars(Tail(text), k - Head(text).n)
         ELSE <<[Head(text) EXCEPT !.n = k]>>

\* generateJsonWithClaude from the answer of its generateWithClaude call
\* on: the value parsed, or the error thrown, whose message ends with the
\* preview and "...". llmCalls is the number of generateWithClaude calls.
generateJsonWithClaude(response) ==
    LET jsonStr ==
            TrimText(StripTrailingFence(StripLeadingFence(
                TrimText(response))))
    IN IF Parses(jsonStr)
       THEN [kind |-> "value", json |-> jsonStr, preview |-> <<>>,
             llmCalls |-> 1]
       ELSE [kind |-> "error", json |-> jsonStr,
             preview |-> TakeChars(jsonStr, PreviewLength), llmCalls |-> 1]

CallGenerateJson ==
    /\ callOp = "none"
    /\ \E response \in Responses2Json :
          /\ callOp' = "generateJsonWithClaude"
          /\ callArg' = response
          /\ callResult' = generateJsonWithClaude(response)
    /\ UNCHANGED callBase
    /\ UNCHANGED <<fetchVars, genVars, discVars, pipeVars, seriesVars>>

\* The text extractMainContent returned for a page, by the lengths of its
\* words: a text of pieces, a "word" of that many characters for each, one
\* "ws" between two of them.
RECURSIVE TextOfWords(_)
TextOfWords(lens) ==
    IF lens = <<>> THEN <<>>
    ELSE IF Len(lens) = 1 THEN <<Piece("word", lens[1])>>
    ELSE <<Piece("word", lens[1]), Piece("ws", 1)>>
            \o TextOfWords(Tail(lens))

WordLengths == {3, 120, 2500, 4999}

\* Longest text, in words, fetchArticle is given.
MaxWords == 3

ArticleTexts ==
    {TextOfWords(lens) : lens \in UNION {[1..n -> WordLengths] :
                                            n \in 0..MaxWords}}

\* content.split(/\s+/).length: one more than the runs of whitespace
SplitCount(text) ==
    1 + Cardinality({i \in 1..Len(text) :
                        /\ text[i].t = "ws"
                        /\ (i = 1 \/ text[i - 1].t # "ws")})

\* Variant of fetchArticle that counts the words of the text it stores.
fetchArticleCountsStored(title, content) ==
    IF title = "" \/ CharLen(content) < MinContentLength
    THEN [kind |-> "null", title |-> "", wordCount |-> 0, content |-> <<>>]
    ELSE [kind |-> "article", title |-> title,
          wordCount |-> SplitCount(TakeChars(content, StoredContentLength)),
          content |-> TakeChars(content, StoredContentLength)]

\* fetchArticle from the title and the text extracted from the page on:
\* null, or the ExistingArticle, of which title, wordCount and content are
\* kept here.
fetchArticle(title, content) ==
    IF title = "" \/ CharLen(content) < MinContentLength
    THEN [kind |-> "null", title |-> "", wordCount |-> 0, content |-> <<>>]
    ELSE [kind |-> "article", title |-> title,
          wordCount |-> SplitCount(content),
          content |-> TakeChars(content, StoredContentLength)]

CallFetchArticle ==
    /\ callOp = "none"
    /\ \E title \in {"", "T"}, content \in ArticleTexts :
          /\ callOp' = "fetchArticle"
          /\ callArg' = content
          /\ callResult' = fetchArticle(title, content)
    /\ UNCHANGED callBase
    /\ UNCHANGED <<fetchVars, genVars, discVars, pipeVars, seriesVars>>

----------------------------------------------------------------------------
(* index.ts: the run command                                               *)

\* The order of the calls in the try block of the run command.
StageOrder == <<"analyze", "discover", "plan", "generate">>

PipeInit ==
    /\ pipelinePc = "idle"
    /\ stages = <<>>
    /\ exitCode = 0

Stage(name, outcome) == [name |-> name, outcome |-> outcome]

\* Variant of StageThrew in which the error of a stage is swallowed.
StageThrewNever(result) == FALSE

\* An awaited stage that throws takes the run command to its catch block;
\* one that returns lets the try block go on.
StageThrew(result) == result # "ok"

\* The stage awaited has settled with `result`. It threw: the catch block
\* prints the message and calls process.exit(1). It returned: the spinner
\* succeeds and the next stage is called; after the last one the summary is
\* printed and the process ends.
AfterStage(result, next) ==
    LET n == Len(stages)
    IN IF StageThrew(result)
       THEN /\ stages' = [stages EXCEPT ![n].outcome = "failed"]
            /\ pipelinePc' = "exit"
            /\ exitCode' = 1
       ELSE IF next = "exit"
       THEN /\ stages' = [stages EXCEPT ![n].outcome = "ok"]
            /\ pipelinePc' = "exit"
            /\ exitCode' = 0
       ELSE /\ stages' = Append([stages EXCEPT ![n].outcome = "ok"],
                                Stage(next, "running"))
            /\ pipelinePc' = next
            /\ UNCHANGED exitCode

\* `blog-builder run <url>`: getConfig, then analyzeSite(url, config) is
\* called.
RunStart ==
    /\ pipelinePc = "idle"
    /\ genPc = "idle"
    /\ discPc = "idle"
    /\ pipelinePc' = "analyze"
    /\ stages' = <<Stage("analyze", "running")>>
    /\ UNCHANGED exitCode
    /\ UNCHANGED <<fetchVars, genVars, discVars, callVars, seriesVars>>

\* analyzeSite returned: site-analysis.json and blog-plan.md are there.
AnalyzeSite ==
    /\ siteAnalysis' = TRUE
    /\ blogPlanMd' = [exists |-> TRUE, recommended |-> <<>>]

\* analyzeSite(url, config) settles.
RunAnalyze ==
    /\ pipelinePc = "analyze"
    /\ \/ /\ AnalyzeSite
          /\ AfterStage("ok", "discover")
       \/ /\ UNCHANGED <<siteAnalysis, blogPlanMd>>
          /\ AfterStage("error", "discover")
    /\ UNCHANGED <<articlePlan, outputDir, articleFiles, blogTs, readmeMd>>
    /\ UNCHANGED <<runVars, obsVars>>
    /\ UNCHANGED <<fetchVars, discVars, callVars, seriesVars>>

\* discoverArticles(url, config) has returned or thrown.
RunDiscoverDone ==
    /\ pipelinePc = "discover"
    /\ discPc = "exit"
    /\ AfterStage(discResult, "plan")
    /\ discPc' = "idle"
    /\ discResult' = "none"
    /\ blogLinks' = <<>>
    /\ probeIdx' = 0
    /\ blogListingUrl' = NoUrl
    /\ articleUrls' = <<>>
    /\ artIdx' = 0
    /\ articles' = <<>>
    /\ inFlight' = 0
    /\ fetchCalls' = 0
    /\ lastEvent' = NoEvent
    /\ seen' = <<>>
    /\ UNCHANGED existingArticles
    /\ UNCHANGED <<fetchVars, genVars, callVars, seriesVars>>

\* planArticles(url, config) has returned or thrown.
RunPlanDone ==
    /\ pipelinePc = "plan"
    /\ genPc = "exit"
    /\ AfterStage(lastCmd.result, "generate")
    /\ genPc' = "idle"
    /\ lastCmd' = NoCmd
    /\ llmCalls' = 0
    /\ UNCHANGED <<articleCount, plan, articlesToGenerate, genIdx, article,
                   generatedArticles, invoked, completed>>
    /\ UNCHANGED fileVars
    /\ UNCHANGED <<fetchVars, discVars, callVars, seriesVars>>

\* generateArticles(url, config) has returned or thrown.
RunGenerateDone ==
    /\ pipelinePc = "generate"
    /\ genPc = "exit"
    /\ AfterStage(lastCmd.result, "exit")
    /\ genPc' = "idle"
    /\ lastCmd' = NoCmd
    /\ llmCalls' = 0
    /\ UNCHANGED <<articleCount, plan, articlesToGenerate, genIdx, article,
                   generatedArticles, invoked, completed>>
    /\ UNCHANGED fileVars
    /\ UNCHANGED <<fetchVars, discVars, callVars, seriesVars>>

----------------------------------------------------------------------------
(* index.ts, generator.ts: generate commands run one after the other       *)

\* Most generate commands of a series.
MaxRuns == 4

SeriesInit ==
    /\ seriesCount = 0
    /\ seriesNeed = 0
    /\ seriesRuns = 0

\* ceil(a / b), b >= 1
CeilDiv(a, b) == (a + b - 1) \div b

\* The briefs of a list that are not 'generated'.
NotGenerated(list) ==
    {i \in 1..Len(list) : list[i].status # "generated"}

\* A series of generate commands with --count c begins over the plan as it
\* is on disk, N briefs of which K are generated.
SeriesStart ==
    /\ genPc = "idle"
    /\ siteAnalysis
    /\ articlePlan.exists
    /\ \E c \in 1..MaxCount :
          /\ seriesCount' = c
          /\ seriesNeed' =
                CeilDiv(Cardinality(NotGenerated(articlePlan.articles)), c)
    /\ seriesRuns' = 0
    /\ UNCHANGED <<fetchVars, genVars, discVars, callVars, pipeVars>>

\* The next generate command of the series is run, with the count of the
\* series.
SeriesGenerate ==
    /\ seriesCount >= 1
    /\ seriesRuns < MaxRuns
    /\ GenStart
    /\ articleCount' = seriesCount

\* The steps of generateArticles when the call or write awaited succeeds.
GenerateSucceeds ==
    \/ GenArticle /\ genPc' # "exit"
    \/ GenMedium /\ genPc' # "exit"
    \/ GenLinkedin /\ genPc' # "exit"
    \/ GenWrite
    \/ GenSavePlan
    \/ GenBlogMetadata

\* index.ts: the generate command of the series is over.
SeriesRunDone ==
    /\ seriesCount >= 1
    /\ genPc = "exit"
    /\ seriesRuns' = seriesRuns + 1
    /\ genPc' = "idle"
    /\ lastCmd' = NoCmd
    /\ llmCalls' = 0
    /\ UNCHANGED <<seriesCount, seriesNeed>>
    /\ UNCHANGED <<articleCount, plan, articlesToGenerate, genIdx, article,
                   generatedArticles, invoked, completed>>
    /\ UNCHANGED fileVars
    /\ UNCHANGED <<fetchVars, discVars, callVars, pipeVars>>

----------------------------------------------------------------------------
(* Specifications                                                          *)

FetchNext ==
    \/ FetchCall
    \/ FetchAttempt
    \/ FetchWake

\* fetchPage calls against an arbitrary server; no stage is running.
\* No Plan or Generate command has run; the site has been analyzed.
GenQuiet == GenInit /\ siteAnalysis

FetchSpecInit ==
    FetchInit /\ GenQuiet /\ DiscInit /\ CallInit /\ PipeInit /\ SeriesInit

SpecFetch == FetchSpecInit /\ [][FetchNext]_vars

GenNext ==
    \/ PlanArticles
    \/ GenStart
    \/ GenArticle
    \/ GenMedium
    \/ GenLinkedin
    \/ GenWrite
    \/ GenSavePlan
    \/ GenBlogMetadata
    \/ GenCrash
    \/ CommandExit

\* Plan and Generate commands, one at a time, over one domain directory.
GenSpecInit ==
    FetchInit /\ GenInit /\ DiscInit /\ CallInit /\ PipeInit /\ SeriesInit

SpecGen == GenSpecInit /\ [][GenNext]_vars

DiscNext ==
    \/ DiscoverStart
    \/ DiscoverMain
    \/ DiscoverProbe
    \/ DiscoverProbeSleep
    \/ DiscoverListing
    \/ DiscoverArticle
    \/ DiscoverArticleSleep
    \/ DiscoverSave
    \/ DiscoverExit

\* Discover commands, one at a time, against a site that answers each fetch
\* arbitrarily.
SpecDiscover == FetchSpecInit /\ [][DiscNext]_vars

CallNext ==
    \/ CallExtractLinks
    \/ CallExtractArticleLinks
    \/ CallExtractMainContent
    \/ CallGenerateJson
    \/ CallFindBlogLinks
    \/ CallExtractTopics
    \/ CallFetchArticle

\* One call of one of the functions, with an arbitrary input; no stage is
\* running.
SpecCall == FetchSpecInit /\ [][CallNext]_vars

\* The steps of the stage the run command awaits, and its own.
RunNext ==
    \/ RunStart
    \/ RunAnalyze
    \/ pipelinePc = "discover" /\ DiscoverStart
    \/ pipelinePc = "discover" /\ DiscoverMain
    \/ pipelinePc = "discover" /\ DiscoverProbe
    \/ pipelinePc = "discover" /\ DiscoverProbeSleep
    \/ pipelinePc = "discover" /\ DiscoverListing
    \/ pipelinePc = "discover" /\ DiscoverArticle
    \/ pipelinePc = "discover" /\ DiscoverArticleSleep
    \/ pipelinePc = "discover" /\ DiscoverSave
    \/ RunDiscoverDone
    \/ pipelinePc = "plan" /\ PlanArticles
    \/ RunPlanDone
    \/ pipelinePc = "generate" /\ GenStart
    \/ pipelinePc = "generate" /\ GenArticle
    \/ pipelinePc = "generate" /\ GenMedium
    \/ pipelinePc = "generate" /\ GenLinkedin
    \/ pipelinePc = "generate" /\ GenWrite
    \/ pipelinePc = "generate" /\ GenSavePlan
    \/ pipelinePc = "generate" /\ GenBlogMetadata
    \/ RunGenerateDone

\* One `run` command over a domain directory that is new or holds an
\* analysis.
SpecRun == GenSpecInit /\ [][RunNext]_vars

ConvergeNext ==
    \/ seriesCount = 0 /\ PlanArticles
    \/ seriesCount = 0 /\ CommandExit
    \/ SeriesStart
    \/ SeriesGenerate
    \/ GenArticle /\ genPc' # "exit"
    \/ GenMedium /\ genPc' # "exit"
    \/ GenLinkedin /\ genPc' # "exit"
    \/ GenWrite
    \/ GenSavePlan
    \/ GenBlogMetadata
    \/ SeriesRunDone

\* Plan commands, then generate commands in a row with one articleCount;
\* every generation call and every write of a generate command succeeds, so
\* that a run that has started goes on to its next step.
SpecConverge ==
    GenSpecInit /\ [][ConvergeNext]_vars /\ WF_vars(GenerateSucceeds)

----------------------------------------------------------------------------
(* Properties of the Plan and Generate stages, checked under SpecGen       *)

Generated(list) ==
    {i \in 1..Len(list) : list[i].status = "generated"}

\* generateArticles is between its start and its write of article-plan.json:
\* the file still is the plan the run read.
GenBeforeSave == genPc \in {"article", "medium", "linkedin", "write", "savePlan"}

\* C1: with N briefs in the persisted plan, K of them 'generated', a run
\* calls generateSingleArticle for at most min(articleCount, N - K) briefs,
\* for none of them twice, and for none that the persisted plan records as
\* 'generated'.
C1_ResumeSkipsGenerated ==
    GenBeforeSave =>
        LET N == Len(articlePlan.articles)
            K == Cardinality(Generated(articlePlan.articles))
        IN /\ Len(invoked) <= Min(articleCount, N - K)
           /\ \A j \in 1..Len(invoked) :
                 /\ invoked[j] \in 1..N
                 /\ articlePlan.articles[invoked[j]].status # "generated"
                 /\ \A k \in 1..Len(invoked) :
                       invoked[k] = invoked[j] => k = j

\* A resumed run: the persisted plan has a generated brief, and the run has
\* generated the min(articleCount, N - K) >= 1 briefs it selected.
C1_Witness ==
    /\ genPc = "savePlan"
    /\ Generated(articlePlan.articles) # {}
    /\ Len(invoked) >= 1
    /\ Len(invoked) =
          Min(articleCount,
              Len(articlePlan.articles)
                  - Cardinality(Generated(articlePlan.articles)))

\* C2: a run on a 3-brief plan that has completed briefs 1 and 2 and then
\* ends by a crash or a failed generation call leaves article-plan.json
\* recording briefs 1 and 2 as 'generated'.
C2_CrashKeepsCompleted ==
    [][ (/\ genPc \notin {"idle", "exit"}
         /\ genPc' = "exit"
         /\ lastCmd'.result \in {"crashed", "llm-failed"}
         /\ articlesToGenerate = <<1, 2, 3>>
         /\ completed = 2)
          => /\ articlePlan'.articles[1].status = "generated"
             /\ articlePlan'.articles[2].status = "generated" ]_vars

\* The status article-plan.json records for the brief with this id: that of
\* the first brief carrying the id.
Records(file, id, status) ==
    \E i \in 1..Len(file.articles) :
        /\ file.articles[i].id = id
        /\ file.articles[i].status = status
        /\ \A j \in 1..(i - 1) : file.articles[j].id # id

\* C3: a brief that article-plan.json records as 'generated' is not recorded
\* as 'planned' by any later write of the file.
C3_StatusNeverReverts ==
    [][ \A id \in Ids :
          Records(articlePlan, id, "generated")
            => ~Records(articlePlan', id, "planned") ]_vars

\* The artifact files of the domain directory.
artifactFiles ==
    <<siteAnalysis, articlePlan, blogPlanMd, articleFiles, blogTs, readmeMd>>

\* C7: a plan command started without site-analysis.json, and a generate
\* command started without site-analysis.json or without article-plan.json,
\* ends at once with the error naming the command to run first, has made
\* no LLM call, and has left every artifact file as it was.
C7_FailFastOnMissingArtifact ==
    [][ (/\ genPc = "idle"
         /\ genPc' # "idle"
         /\ \/ ~siteAnalysis
            \/ lastCmd'.name = "generate" /\ ~articlePlan.exists)
          => /\ genPc' = "exit"
             /\ lastCmd'.result =
                   (IF ~siteAnalysis THEN "run analyze first"
                    ELSE "run plan first")
             /\ llmCalls' = 0
             /\ artifactFiles' = artifactFiles ]_vars

\* generate was run with the analysis present and no plan.
C7_Witness ==
    /\ genPc = "exit"
    /\ lastCmd = [name |-> "generate", result |-> "run plan first"]
    /\ siteAnalysis
    /\ ~articlePlan.exists
    /\ llmCalls = 0

\* C12: when a Generate run has ended successfully, output/blog.ts has an
\* entry for every brief that article-plan.json records as 'generated'.
C12_BlogTsListsAllGenerated ==
    (genPc = "exit" /\ lastCmd = [name |-> "generate", result |-> "ok"]) =>
        \A i \in 1..Len(articlePlan.articles) :
            articlePlan.articles[i].status = "generated" =>
                \E k \in 1..Len(blogTs.posts) :
                    /\ blogTs.posts[k].slug = articlePlan.articles[i].slug
                    /\ blogTs.posts[k].title = articlePlan.articles[i].title

HasId(list, id) == \E i \in 1..Len(list) : list[i].id = id

\* C13: the briefId of every GeneratedArticle of a run is the id of a brief
\* of article-plan.json, as the run read it and as the run writes it back,
\* and of the plan the run holds.
C13_BriefIdInPlan ==
    \A k \in 1..Len(generatedArticles) :
        /\ HasId(articlePlan.articles, generatedArticles[k].briefId)
        /\ HasId(plan, generatedArticles[k].briefId)

\* A run has generated two articles and written the plan back.
C13_Witness ==
    /\ genPc = "blogMetadata"
    /\ Len(generatedArticles) = 2
    /\ Generated(articlePlan.articles) # {}

\* C14: in the plan a successful Plan run has written, no two briefs have
\* the same id.
C14_PlanIdsDistinct ==
    (genPc = "exit" /\ lastCmd = [name |-> "plan", result |-> "ok"]) =>
        \A i, j \in 1..Len(articlePlan.articles) :
            articlePlan.articles[i].id = articlePlan.articles[j].id => i = j

\* C15: every brief of article-plan.json has its pattern among dots, grid,
\* waves, circuit and its platform among medium, linkedin, both.
C15_EnumerationsEnforced ==
    \A i \in 1..Len(articlePlan.articles) :
        /\ articlePlan.articles[i].pattern \in
              {"dots", "grid", "waves", "circuit"}
        /\ articlePlan.articles[i].platform \in {"medium", "linkedin", "both"}

----------------------------------------------------------------------------
(* Properties of fetchPage, checked under SpecFetch                        *)

\* A failure the fetcher treats as transient: no response (timeout, network
\* error), a 5xx status, or 429.
TransientFailure(resp) ==
    \/ resp.kind \in {"timeout", "network"}
    \/ resp.kind = "http" /\ (resp.status >= 500 \/ resp.status = 429)

\* C4: one call makes at most 3 attempts; three transient failures in a row
\* are followed by no fourth attempt but by an error carrying the URL and the
\* message of the last underlying error; a successful attempt is the last
\* one, and the call has returned.
C4_AtMostThreeAttempts ==
    /\ Len(requests) <= 3
    /\ (/\ Len(requests) = 3
        /\ \A i \in 1..3 : TransientFailure(requests[i]))
          => /\ fetchPc = "thrown"
             /\ fetchResult.kind = "error"
             /\ fetchResult.url = url
             /\ fetchResult.detail = ErrorMessage(requests[3])
    /\ (fetchPc = "thrown"
          /\ \A i \in 1..Len(requests) : TransientFailure(requests[i]))
          => Len(requests) = 3
    /\ \A i \in 1..Len(requests) :
          Resolves(requests[i])
            => /\ i = Len(requests)
               /\ fetchPc = "returned"
               /\ fetchResult = [kind |-> "ok", url |-> url]

\* HTTP 503 three consecutive times: the call has thrown after 3 attempts.
C4_Witness ==
    /\ fetchPc = "thrown"
    /\ Len(requests) = 3
    /\ \A i \in 1..3 : requests[i] = [kind |-> "http", status |-> 503]

\* C5: an attempt that receives a status in [400,500) other than 429 is the
\* last attempt of the call, the call has thrown, and no backoff delay was
\* started or awaited after it (a 404 on the first attempt: 1 attempt).
C5_ClientErrorFailsImmediately ==
    \A i \in 1..Len(requests) :
        (/\ requests[i].kind = "http"
         /\ requests[i].status >= 400
         /\ requests[i].status < 500
         /\ requests[i].status # 429)
          => /\ i = Len(requests)
             /\ fetchPc = "thrown"
             /\ pendingDelay = 0
             /\ Len(slept) = i - 1

\* HTTP 404 on the first attempt: thrown with exactly one attempt recorded.
C5_Witness ==
    /\ fetchPc = "thrown"
    /\ requests = <<[kind |-> "http", status |-> 404]>>
    /\ slept = <<>>

\* C6: attempt k+1 starts only after a delay of k * 1000 ms has been awaited
\* (1000, then 2000), a failed attempt k < 3 that is transient (429
\* included) starts that delay, and no delay follows the third attempt.
C6_LinearBackoff ==
    /\ Len(slept) <= 2
    /\ \A k \in 1..Len(slept) : slept[k] = k * 1000
    /\ fetchPc = "request" => Len(slept) = Len(requests)
    /\ fetchPc = "sleep" =>
          /\ Len(requests) < 3
          /\ Len(slept) = Len(requests) - 1
          /\ pendingDelay = Len(requests) * 1000
    /\ \A k \in 1..Len(requests) :
          (k < 3 /\ TransientFailure(requests[k]))
            => \/ Len(slept) >= k
               \/ (fetchPc = "sleep" /\ k = Len(requests))
    /\ (Len(requests) = 3 /\ ~Resolves(requests[3])) =>
          /\ fetchPc = "thrown"
          /\ slept = <<1000, 2000>>

\* A 429, then two transient failures: both delays were awaited, none after
\* the third attempt.
C6_Witness ==
    /\ fetchPc = "thrown"
    /\ Len(requests) = 3
    /\ requests[1] = [kind |-> "http", status |-> 429]
    /\ slept = <<1000, 2000>>

----------------------------------------------------------------------------
(* Properties of the Discover stage, checked under SpecDiscover            *)

\* A candidate whose page came back and fails the gate of fetchArticle.
FailsGate(entry) ==
    /\ entry.fetched
    /\ (entry.title = "" \/ entry.len < 100)

HasUrl(list, u) == \E k \in 1..Len(list) : list[k].url = u

\* C8: a fetched candidate whose extracted title is empty or whose extracted
\* body text is shorter than 100 characters is never among the articles of
\* the run, nor among those written to existing-articles.json by the run, and
\* rejecting it raises no error.
C8_ValidationGate ==
    \A i \in 1..Len(seen) :
        FailsGate(seen[i]) =>
            /\ ~HasUrl(articles, seen[i].url)
            /\ discResult # "error"
            /\ (discPc = "exit" =>
                    /\ existingArticles.exists
                    /\ ~HasUrl(existingArticles.articles, seen[i].url))

\* A finished run that rejected a titled page of 99 characters and an
\* untitled page of 100, and kept a titled page of exactly 100.
C8_Witness ==
    /\ discPc = "exit"
    /\ discResult = "ok"
    /\ \E i \in 1..Len(seen) :
          /\ seen[i].fetched /\ seen[i].title # "" /\ seen[i].len = 99
          /\ seen[i].outcome = "dropped"
    /\ \E i \in 1..Len(seen) :
          /\ seen[i].fetched /\ seen[i].title = "" /\ seen[i].len = 100
          /\ seen[i].outcome = "dropped"
    /\ \E k \in 1..Len(existingArticles.articles) :
          existingArticles.articles[k].content = 100

Threw(entry) == entry.outcome = "threw"

\* C9: once fetchArticle has failed for one candidate the run is not
\* aborted, and when the run is over every candidate of the batch has been
\* tried in order, every candidate that passed the gate is in the inventory,
\* and existing-articles.json has been written with it.
C9_FailureDoesNotAbortBatch ==
    (\E i \in 1..Len(seen) : Threw(seen[i])) =>
        /\ discResult # "error"
        /\ discPc = "exit" =>
              /\ discResult = "ok"
              /\ Len(seen) = Len(articleUrls)
              /\ \A i \in 1..Len(seen) : seen[i].url = articleUrls[i]
              /\ existingArticles.exists
              /\ existingArticles.articles = articles
              /\ \A i \in 1..Len(seen) :
                    (seen[i].fetched /\ ~FailsGate(seen[i])) =>
                        HasUrl(existingArticles.articles, seen[i].url)

\* A finished run whose first candidate failed and whose later candidates
\* were fetched, one of them kept.
C9_Witness ==
    /\ discPc = "exit"
    /\ Len(seen) = 3
    /\ Threw(seen[1])
    /\ seen[2].fetched
    /\ seen[3].outcome = "added"
    /\ existingArticles.articles # <<>>

\* C10: between any two consecutive fetchPage calls of one Discover run
\* sleep(config.rateLimit) is awaited: no fetchPage call is issued while the
\* last thing the run did was another fetchPage call.
C10_DelayBetweenFetches ==
    [][ (fetchCalls' = fetchCalls + 1) => lastEvent.op # "fetchPage" ]_vars

\* C11: existing-articles.json changes only in the step that ends a run
\* successfully, and then it is replaced by exactly the articles of that
\* run with articleCount their number; a run that ends with an error (the
\* fetch of the main page or of the listing page failed) leaves the file as
\* it was.
C11_InventoryWrittenLast ==
    [][ /\ existingArticles' # existingArticles =>
              /\ discPc = "save"
              /\ discPc' = "exit"
              /\ discResult' = "ok"
              /\ existingArticles'.exists
              /\ existingArticles'.articles = articles
              /\ existingArticles'.articleCount =
                    Len(existingArticles'.articles)
        /\ discResult' = "error" => existingArticles' = existingArticles
        /\ (discPc = "save" /\ discPc' = "exit") =>
              /\ existingArticles'.articles = articles
              /\ existingArticles'.articleCount = Len(articles) ]_vars

\* A run whose listing page could not be fetched has ended with an error,
\* and the inventory of an earlier run, with an article in it, is still
\* there.
C11_Witness ==
    /\ discPc = "exit"
    /\ discResult = "error"
    /\ blogListingUrl # NoUrl
    /\ existingArticles.exists
    /\ existingArticles.articleCount = 1
    /\ Len(existingArticles.articles) = 1

----------------------------------------------------------------------------
(* Properties of the functions, checked under SpecCall                     *)

\* The anchors of callArg whose href was given as `kind`.
HasHref(kind) == \E i \in 1..Len(callArg) : callArg[i].href.kind = kind

NoDuplicates(list) ==
    \A i, j \in 1..Len(list) : list[i] = list[j] => i = j

\* C16: extractLinks returns only URLs of the base hostname and none twice;
\* an href that cannot be resolved is skipped, every resolvable href of the
\* base hostname is returned, and the call returns.
C16_ExtractLinksSameHostNoDuplicate ==
    callOp = "extractLinks" =>
        /\ \A i \in 1..Len(callResult) : callResult[i].host = callBase.host
        /\ NoDuplicates(callResult)
        /\ \A i \in 1..Len(callArg) :
              LET h == callArg[i].href
              IN (h.kind \in {"abs", "rel"}
                    /\ Resolve(h, callBase).host = callBase.host)
                   => \E k \in 1..Len(callResult) :
                        callResult[k] = Resolve(h, callBase)

\* A page with an unresolvable href, an absolute and a relative href of the
\* same URL: the URL is returned once.
C16_Witness ==
    /\ callOp = "extractLinks"
    /\ HasHref("bad")
    /\ \E i, j \in 1..Len(callArg) :
          /\ callArg[i].href = Href("abs", UrlPost1)
          /\ callArg[j].href = Href("rel", UrlPost1)
    /\ callResult = <<UrlPost1>>

\* The segments the specification denies.
DenyList ==
    {"tag", "category", "author", "page", "search", "login", "signup"}

HasDeniedSegment(u) ==
    \E i \in 1..Len(u.path) : SegLower(u.path[i]) \in DenyList

\* C17: extractArticleLinks returns, in first-seen order and without
\* duplicates, exactly the candidate hrefs that resolve to the base
\* hostname, whose path has no denylisted segment and that are not the
\* listing page itself.
C17_ArticleLinksExactlyUndenied ==
    callOp = "extractArticleLinks" =>
        callResult =
            Dedupe(SelectSeq(Resolved(VisitOrder(callArg, 1), callBase),
                             LAMBDA u : /\ u.host = callBase.host
                                        /\ ~HasDeniedSegment(u)
                                        /\ u # callBase))

\* The words of the page that stand outside every removed element.
WordsOutsideBoilerplate(doc) ==
    {w \in {"menu", "story"} :
        \E i \in 1..Len(doc) :
            /\ doc[i].tag \notin {"nav", "header", "footer", "aside",
                                  "script", "style"}
            /\ \/ \E j \in 1..Len(doc[i].text) : doc[i].text[j] = w
               \/ \E k \in 1..Len(doc[i].kids) :
                    /\ doc[i].kids[k].tag \notin
                          {"nav", "header", "footer", "aside", "script",
                           "style"}
                    /\ \E j \in 1..Len(doc[i].kids[k].text) :
                          doc[i].kids[k].text[j] = w}

\* C18: the text extractMainContent returns has no word that occurs in the
\* page only inside nav, header, footer, aside, script or style elements.
C18_NoBoilerplateText ==
    callOp = "extractMainContent" =>
        \A i \in 1..Len(callResult) :
            callResult[i] \in Whitespace
                \/ callResult[i] \in WordsOutsideBoilerplate(callArg)

\* A page whose main element holds the story and a nav with the menu, next
\* to a script: the story alone is returned.
C18_Witness ==
    /\ callOp = "extractMainContent"
    /\ callArg =
          << Element("script", <<"menu", " ", "\n">>, <<>>),
             Element("main", <<" ", "story">>,
                     <<Element("nav", <<"menu", " ", "\n">>, <<>>)>>) >>
    /\ callResult = <<"story">>

Count(text, t) == Cardinality({i \in 1..Len(text) : text[i].t = t})

\* A text is made of whitespace and of at most one fence, which a "json"
\* may follow when `word` allows it.
OnlyOneFence(text, word) ==
    /\ \A i \in 1..Len(text) : text[i].t \in {"ws", "fence", "json"}
    /\ Count(text, "fence") <= 1
    /\ Count(text, "json") <= (IF word THEN Count(text, "fence") ELSE 0)

\* A text is the first characters of another.
IsStartOf(short, long) ==
    /\ Len(short) <= Len(long)
    /\ \A i \in 1..Len(short) :
          /\ short[i].t = long[i].t
          /\ IF i < Len(short) THEN short[i] = long[i]
             ELSE short[i].n <= long[i].n

\* C19: one LLM call is made; the text parsed is the answer without
\* surrounding whitespace, without at most one leading fence (``` or
\* ```json) and without at most one trailing fence; the value is returned
\* exactly when that text parses, and otherwise the error carries the first
\* characters of that text, at most 200 of them.
C19_OneCallOneFenceBoundedPreview ==
    callOp = "generateJsonWithClaude" =>
        /\ callResult.llmCalls = 1
        /\ \E i \in 1..(Len(callArg) + 1) :
           \E j \in (i - 1)..Len(callArg) :
              /\ callResult.json = SubSeq(callArg, i, j)
              /\ OnlyOneFence(SubSeq(callArg, 1, i - 1), TRUE)
              /\ OnlyOneFence(SubSeq(callArg, j + 1, Len(callArg)), FALSE)
        /\ callResult.kind = "value" <=> callResult.json = <<Piece("obj", 2)>>
        /\ callResult.kind = "error" =>
              /\ IsStartOf(callResult.preview, callResult.json)
              /\ CharLen(callResult.preview) <= 200
              /\ CharLen(callResult.preview) = 200
                    \/ callResult.preview = callResult.json

\* A fenced answer that does not parse and is longer than 200 characters:
\* the error carries its first 200 characters.
C19_Witness ==
    /\ callOp = "generateJsonWithClaude"
    /\ Len(callArg) >= 3
    /\ callArg[1] = Piece("fence", 3)
    /\ callArg[Len(callArg)] = Piece("fence", 3)
    /\ callResult.kind = "error"
    /\ CharLen(callResult.json) > 200
    /\ CharLen(callResult.preview) = 200

----------------------------------------------------------------------------
(* Further properties of the Discover stage, checked under SpecDiscover    *)

\* The url values of a list of articles.
UrlsOf(list) == [i \in 1..Len(list) |-> list[i].url]

\* C21: in every existing-articles.json written by Discover the url values
\* of the articles are pairwise distinct; so are those of the articles a run
\* has collected so far.
C21_InventoryUrlsDistinct ==
    /\ NoDuplicates(UrlsOf(existingArticles.articles))
    /\ NoDuplicates(UrlsOf(articles))

\* A run has written an inventory of three articles found on a listing page
\* that links one of them from two anchors.
C21_Witness ==
    /\ discPc = "exit"
    /\ discResult = "ok"
    /\ Len(existingArticles.articles) = 3
    /\ HasUrl(existingArticles.articles, UrlPost1)
    /\ Len(seen) = 3

----------------------------------------------------------------------------
(* Properties of the run command, checked under SpecRun                    *)

\* The stage the run command awaits has thrown.
AwaitedStageFailed ==
    \/ pipelinePc = "discover" /\ discPc = "exit" /\ discResult # "ok"
    \/ pipelinePc \in {"plan", "generate"} /\ genPc = "exit"
                                           /\ lastCmd.result # "ok"

\* The stage the run command awaits has returned.
AwaitedStageSucceeded ==
    \/ pipelinePc = "analyze" /\ siteAnalysis'
    \/ pipelinePc = "discover" /\ discPc = "exit" /\ discResult = "ok"
                               /\ existingArticles.exists
    \/ pipelinePc = "plan" /\ genPc = "exit" /\ articlePlan.exists
                           /\ lastCmd = [name |-> "plan", result |-> "ok"]
    \/ pipelinePc = "generate" /\ genPc = "exit" /\ blogTs.exists
                               /\ lastCmd = [name |-> "generate",
                                             result |-> "ok"]

\* C22: the run command executes analyze, discover, plan, generate strictly
\* in this order, each only after the one before has completed
\* successfully; a stage does its work only while it is the one awaited;
\* when a stage fails no later stage starts and the process exits with
\* code 1, and it exits with code 0 only after all four have succeeded.
C22_PipelineInOrder ==
    [][ /\ pipelinePc # "exit"
        /\ Len(stages') <= Len(StageOrder)
        /\ \A i \in 1..Len(stages') : stages'[i].name = StageOrder[i]
        /\ \A i \in 1..(Len(stages') - 1) : stages'[i].outcome = "ok"
        /\ pipelinePc' # "exit" =>
              /\ stages'[Len(stages')] = Stage(pipelinePc', "running")
              /\ pipelinePc' = StageOrder[Len(stages')]
        /\ Len(stages') > Len(stages) =>
              pipelinePc = "idle" \/ AwaitedStageSucceeded
        /\ discVars' # discVars => pipelinePc = "discover"
        /\ genPc' # genPc => pipelinePc \in {"plan", "generate"}
        /\ genPc' \notin {"idle", "exit"} => pipelinePc = "generate"
        /\ llmCalls' > llmCalls => pipelinePc \in {"plan", "generate"}
        /\ articlePlan' # articlePlan => pipelinePc \in {"plan", "generate"}
        /\ <<articleFiles', blogTs'>> # <<articleFiles, blogTs>> =>
              pipelinePc = "generate"
        /\ AwaitedStageFailed =>
              /\ pipelinePc' = "exit"
              /\ exitCode' = 1
              /\ Len(stages') = Len(stages)
              /\ stages'[Len(stages')].outcome = "failed"
        /\ pipelinePc' = "exit" =>
              \/ /\ exitCode' = 1
                 /\ stages'[Len(stages')].outcome = "failed"
                 /\ pipelinePc = "analyze" \/ AwaitedStageFailed
              \/ /\ exitCode' = 0
                 /\ Len(stages') = Len(StageOrder)
                 /\ stages'[Len(stages')].outcome = "ok"
                 /\ pipelinePc = "generate"
                 /\ AwaitedStageSucceeded ]_vars

\* The plan stage has thrown after analyze and discover succeeded: the
\* process has exited with code 1, generate was never started, and there is
\* an inventory but no plan.
C22_Witness ==
    /\ pipelinePc = "exit"
    /\ exitCode = 1
    /\ Len(stages) = 3
    /\ stages[3] = Stage("plan", "failed")
    /\ existingArticles.exists
    /\ ~articlePlan.exists
    /\ ~outputDir

----------------------------------------------------------------------------
(* Further properties of the functions, checked under SpecCall             *)

\* The elements of a page a selector of mainSelectors matches, in document
\* order.
MatchesOf(doc, sel) ==
    SelectSeq(InDocumentOrder(doc), LAMBDA e : e.tag = sel)

\* The positions in mainSelectors of the selectors that match an element.
MatchingSelectors(doc) ==
    {i \in 1..Len(mainSelectors) : MatchesOf(doc, mainSelectors[i]) # <<>>}

\* C23: extractMainContent returns the (whitespace-normalised) text of the
\* first element matched by the first selector of the priority list that
\* matches anything, and the text of the body only when no selector of the
\* list matches any element.
C23_FirstMatchElseBodyOnlyWithoutMatch ==
    callOp = "extractMainContent" =>
        LET kept == RemoveBoilerplate(callArg)
            sels == MatchingSelectors(kept)
        IN IF sels = {}
           THEN callResult = Trim(CollapseWhitespace(BodyText(kept)))
           ELSE LET first == CHOOSE i \in sels : \A j \in sels : i <= j
                    element == MatchesOf(kept, mainSelectors[first])[1]
                IN callResult = Trim(CollapseWhitespace(TextOf(element)))


\* The words of the blog patterns.
BlogWords ==
    {"blog", "news", "article", "articles", "post", "posts", "insight",
     "insights", "resource", "resources"}

\* The path has one of the words as a segment.
HasBlogSegment(u) ==
    \E i \in 1..Len(u.path) : SegLower(u.path[i]) \in BlogWords

\* C24: findBlogLinks returns exactly the links of the base hostname, each
\* once, whose path has as a segment, in any case, one of blog, news,
\* article(s), post(s), insight(s), resource(s): /insights/<x> and
\* /resources/<x> are returned as /blog/<x> is, /blogger is not.
C24_BlogLinksByPathSegment ==
    callOp = "findBlogLinks" =>
        callResult =
            Dedupe(SelectSeq(callArg,
                             LAMBDA u : /\ u.host = callBase.host
                                        /\ HasBlogSegment(u)))


\* The vocabulary words a lower-case body text holds, in the order of the
\* vocabulary, without those a keyword list already has.
VocabularyFound(content, keywords) ==
    SelectSeq(topicPatterns,
              LAMBDA p : /\ \E i \in 1..Len(content) :
                              p \in PatternsIn(WordLower(content[i]))
                         /\ \A k \in 1..Len(keywords) : keywords[k] # p)

\* C25: the topics of an article are at most 5, no topic occurs twice among
\* them, and they are the first 5 of: the metadata keywords in their order,
\* followed by the vocabulary words found in the body, in any case, that
\* are not among the keywords.
C25_TopicsSetLikeAtMostFive ==
    callOp = "extractTopicsFromContent" =>
        /\ Len(callResult) <= 5
        /\ NoDuplicates(callResult)
        /\ callResult =
              slice0(callArg[2] \o VocabularyFound(callArg[1], callArg[2]),
                     5)


\* The words of a text.
WordsOf(text) == {i \in 1..Len(text) : text[i].t = "word"}

\* C26 as stated: the content stored for an accepted article is at most
\* 5000 characters long and wordCount is the number of whitespace-separated
\* words of that truncated text.
C26_WordCountOfStoredText ==
    (callOp = "fetchArticle" /\ callResult.kind = "article") =>
        /\ CharLen(callResult.content) <= 5000
        /\ callResult.wordCount = SplitCount(callResult.content)

\* C26, amended: the content stored for an accepted article is the first
\* 5000 characters of the extracted text, and wordCount is the number of
\* whitespace-separated words of the whole extracted text, counted before
\* the truncation: it is never less than the count of the stored text.
C26_WordCountOfWholeText ==
    (callOp = "fetchArticle" /\ callResult.kind = "article") =>
        /\ CharLen(callResult.content) <= 5000
        /\ CharLen(callResult.content) = Min(CharLen(callArg), 5000)
        /\ IsStartOf(callResult.content, callArg)
        /\ callResult.wordCount = Cardinality(WordsOf(callArg))
        /\ callResult.wordCount >= SplitCount(callResult.content)

\* An article of three words and 5007 characters: 5000 characters are
\* stored, which hold the first word, and its wordCount is 3.
C26_Witness ==
    /\ callOp = "fetchArticle"
    /\ callResult.kind = "article"
    /\ CharLen(callArg) = 5007
    /\ CharLen(callResult.content) = 5000
    /\ Cardinality(WordsOf(callResult.content)) = 1
    /\ callResult.wordCount = 3

----------------------------------------------------------------------------
(* Further properties of the Plan and Generate stages, checked under       *)
(* SpecGen                                                                 *)

\* generateArticles is in its loop over the briefs, or is entering it.
InGenerateLoop ==
    \/ genPc = "idle" /\ lastCmd'.name = "generate"
    \/ genPc \in {"article", "medium", "linkedin", "write"}

\* A generateWithClaude call of the run fails at this step.
GenerationCallFails ==
    /\ genPc \in {"article", "medium", "linkedin"}
    /\ lastCmd'.result = "llm-failed"

OutputFilesPresent(brief) ==
    LET files == articleFiles[slugify(brief.title)]
    IN /\ files.article
       /\ files.metadata
       /\ brief.platform \in {"medium", "both"} => files.medium
       /\ brief.platform \in {"linkedin", "both"} => files.linkedin

\* C28: every brief that article-plan.json records as 'generated' has its
\* output files: article.md and metadata.json, and medium.md / linkedin.md
\* when its platform asks for them.
C28_GeneratedBriefHasItsFiles ==
    \A i \in Generated(articlePlan.articles) :
        OutputFilesPresent(articlePlan.articles[i])


\* C29: two distinct briefs of the persisted plan that Generate has
\* generated have different output directories, so that the files of one
\* are not overwritten by those of the other.
C29_GeneratedBriefsHaveOwnDirectory ==
    \A i, j \in Generated(articlePlan.articles) :
        i # j =>
            slugify(articlePlan.articles[i].title)
                # slugify(articlePlan.articles[j].title)

----------------------------------------------------------------------------
(* Properties of consecutive Generate runs, checked under SpecConverge     *)

\* A generate command is running.
GenerateRunning == genPc \notin {"idle", "exit"}

\* C30: when every generation call and every write succeeds, a Generate
\* run that has started ends, successfully; and once ceil((N - K) / c)
\* consecutive runs with articleCount c >= 1 have completed over a plan of
\* N briefs of which K were generated, every brief of article-plan.json is
\* 'generated'.
C30_GenerateConverges ==
    /\ [](GenerateRunning
            ~> (genPc = "exit" /\ lastCmd.result = "ok"))
    /\ []((seriesCount >= 1 /\ seriesRuns >= seriesNeed)
            => NotGenerated(articlePlan.articles) = {})

\* Two runs with articleCount 2 over a plan of three briefs, none of them
\* generated, have completed: ceil(3 / 2) = 2, and the three briefs are
\* generated.
C30_Witness ==
    /\ seriesCount = 2
    /\ seriesNeed = 2
    /\ seriesRuns = 2
    /\ Len(articlePlan.articles) = 3
    /\ NotGenerated(articlePlan.articles) = {}

====
